---- MODULE Spec2Model ----
(***************************************************************************)
(* State-machine model of the core of the DigitalTwin application:         *)
(*   - the AI gateway's retry/fallback wrapper (services/gemini.ts),        *)
(*   - the application root state and its stores (App.tsx),                 *)
(*   - the chat turn engine (components/ChatSession.tsx),                   *)
(*   - the prompt-engineering engine (components/PromptEngineer.tsx),       *)
(*   - the profile import / manual edit of the dashboard (Dashboard.tsx).   *)
(*                                                                         *)
(* React specifics that the model keeps:                                   *)
(*   - a handler reads the state of the render it was created in; an       *)
(*     asynchronous continuation keeps the values it captured when the     *)
(*     handler was invoked (the fields of an in-flight request);           *)
(*   - setX(value) replaces the state of the component instance that       *)
(*     issued it, setX(prev => ...) is applied to the latest state;         *)
(*   - a state update issued by a continuation of an unmounted component    *)
(*     instance is dropped, a call of a prop of the application root is not.*)
(***************************************************************************)
EXTENDS Integers, Sequences, FiniteSets, TLC

(***************************************************************************)
(* Bounds of the model.                                                    *)
(***************************************************************************)
MaxRetries == 2      \* largest `retries` argument of a generic retryOperation call
MaxClock == 3        \* number of handler runs that read Date.now()
MaxChatClock == 2    \* the same, of the handlers of the chat view
StoredLen == 22      \* messages after the welcome message in the stored chat session
MaxTurnClock == 3    \* the same, of the turns taken across the sessions of a store
MaxPending == 2      \* gateway calls of the chat view awaited at once, those of left views included

(***************************************************************************)
(* ---------------------------  AI GATEWAY  ------------------------------ *)
(***************************************************************************)
VARIABLES
  rPc,        \* position of the retryOperation call: idle, op, delay, fb, returned, thrown
  rCall,      \* the arguments of the outermost call
  rRetries,   \* the `retries` argument of the current (recursive) invocation
  rDelay,     \* the `delay` argument of the current (recursive) invocation
  rTrace,     \* every invocation of operation / fallbackOperation so far, in order
  rResult     \* what the call returned or threw

retryVars == <<rPc, rCall, rRetries, rDelay, rTrace, rResult>>

MODEL_CHAT_PRO == "gemini-3-pro-preview"
MODEL_CHAT_FLASH == "gemini-3-flash-preview"

NoModel == "none"        \* fallbackOperation === undefined
NoError == [status |-> 0, msg |-> "none"]

\* The errors an attempt can fail with: an HTTP-like status (0: no status field)
\* and whether error.message contains 'unavailable' ("none": no message field).
Errors ==
  { [status |-> 429, msg |-> "other"],
    [status |-> 503, msg |-> "other"],
    [status |-> 0,   msg |-> "unavailable"],
    [status |-> 400, msg |-> "other"],
    [status |-> 0,   msg |-> "none"] }

ConfigError == [status |-> 0, msg |-> "other"]   \* 'API Key 未设置'

isUnavailable(error) ==
  error.msg = "unavailable" \/ error.status = 503 \/ error.status = 429

\* Mutant of CatchDecision: the retry counter is never checked against zero.
CatchDecisionOffByOne(retries, hasFallback, error) ==
  IF retries >= 0 /\ isUnavailable(error) THEN "retry"
  ELSE IF hasFallback /\ (isUnavailable(error) \/ retries = 0) THEN "fallback"
  ELSE "throw"

\* The catch block of retryOperation: what follows a failed operation().
CatchDecision(retries, hasFallback, error) ==
  IF retries > 0 /\ isUnavailable(error) THEN "retry"
  ELSE IF hasFallback /\ (isUnavailable(error) \/ retries = 0) THEN "fallback"
  ELSE "throw"

\* Mutant of primaryModel: grounding is looked at first.
primaryModelSearchFirst(useThinking, useSearch) ==
  IF useSearch THEN MODEL_CHAT_FLASH ELSE MODEL_CHAT_PRO

\* sendChatMessage: the primary tier and the fallback it configures.
primaryModel(useThinking, useSearch) ==
  IF useThinking THEN MODEL_CHAT_PRO
  ELSE IF useSearch THEN MODEL_CHAT_FLASH ELSE MODEL_CHAT_PRO

fallback(useThinking, useSearch) ==
  IF useThinking /\ primaryModel(useThinking, useSearch) = MODEL_CHAT_PRO
  THEN MODEL_CHAT_FLASH ELSE NoModel

\* The options of a sendChatMessage call; NoOptions for the other callers.
Options(useThinking, useSearch) == [useThinking |-> useThinking, useSearch |-> useSearch]
NoOptions == Options(FALSE, FALSE)

RetryInit ==
  /\ rPc = "idle"
  /\ rCall = [caller |-> "none", options |-> NoOptions, retries |-> 0, delay |-> 0,
              primary |-> NoModel, fallback |-> NoModel]
  /\ rRetries = 0
  /\ rDelay = 0
  /\ rTrace = <<>>
  /\ rResult = [kind |-> "none", error |-> NoError, by |-> NoModel]

\* Entry of retryOperation(operation, retries, delay, fallbackOperation).
Enter(caller, options, retries, delay, primary, fb) ==
  /\ rPc = "idle"
  /\ rCall' = [caller |-> caller, options |-> options, retries |-> retries, delay |-> delay,
               primary |-> primary, fallback |-> fb]
  /\ rRetries' = retries
  /\ rDelay' = delay
  /\ rPc' = "op"
  /\ UNCHANGED <<rTrace, rResult>>

\* A direct call of retryOperation with arbitrary arguments.
RetryOperationCall ==
  \E retries \in 0..MaxRetries, delay \in {1000, 1500}, hasFb \in BOOLEAN :
    Enter("retryOperation", NoOptions, retries, delay, "operation",
          IF hasFb THEN "fallbackOperation" ELSE NoModel)

\* sendChatMessage(history, message, options): getAI(), then retryOperation.
SendChatMessageCall ==
  \E useThinking \in BOOLEAN, useSearch \in BOOLEAN, hasKey \in BOOLEAN :
    IF hasKey
    THEN Enter("sendChatMessage", Options(useThinking, useSearch), 2, 1000,
               primaryModel(useThinking, useSearch), fallback(useThinking, useSearch))
    ELSE /\ rPc = "idle"
         /\ rPc' = "thrown"
         /\ rCall' = [rCall EXCEPT !.caller = "sendChatMessage",
                                   !.options = Options(useThinking, useSearch)]
         /\ rResult' = [kind |-> "error", error |-> ConfigError, by |-> "getAI"]
         /\ UNCHANGED <<rRetries, rDelay, rTrace>>

\* analyzeProfile(log, profile): Flash first, Pro as the fallback.
AnalyzeProfileCall ==
  Enter("analyzeProfile", NoOptions, 2, 1500, MODEL_CHAT_FLASH, MODEL_CHAT_PRO)

\* `return await operation()` resolves.
OperationResolves ==
  /\ rPc = "op"
  /\ rTrace' = Append(rTrace, [who |-> "op", model |-> rCall.primary,
                               ok |-> TRUE, error |-> NoError])
  /\ rResult' = [kind |-> "value", error |-> NoError, by |-> rCall.primary]
  /\ rPc' = "returned"
  /\ UNCHANGED <<rCall, rRetries, rDelay>>

\* `await operation()` rejects: the catch block decides.
OperationRejects ==
  /\ rPc = "op"
  /\ \E error \in Errors :
       LET decision == CatchDecision(rRetries, rCall.fallback # NoModel, error) IN
       /\ rTrace' = Append(rTrace, [who |-> "op", model |-> rCall.primary,
                                    ok |-> FALSE, error |-> error])
       /\ rPc' = CASE decision = "retry"    -> "delay"
                   [] decision = "fallback" -> "fb"
                   [] OTHER                 -> "thrown"
       /\ rResult' = IF decision = "throw"
                     THEN [kind |-> "error", error |-> error, by |-> rCall.primary]
                     ELSE rResult
  /\ UNCHANGED <<rCall, rRetries, rDelay>>

\* The setTimeout of the backoff fires: the recursive call with retries - 1, delay * 2.
BackoffElapsed ==
  /\ rPc = "delay"
  /\ rRetries' = rRetries - 1
  /\ rDelay' = rDelay * 2
  /\ rPc' = "op"
  /\ UNCHANGED <<rCall, rTrace, rResult>>

\* `return await fallbackOperation()` resolves.
FallbackResolves ==
  /\ rPc = "fb"
  /\ rTrace' = Append(rTrace, [who |-> "fb", model |-> rCall.fallback,
                               ok |-> TRUE, error |-> NoError])
  /\ rResult' = [kind |-> "value", error |-> NoError, by |-> rCall.fallback]
  /\ rPc' = "returned"
  /\ UNCHANGED <<rCall, rRetries, rDelay>>

\* Mutant of FallbackRejects: a rejected fallback is attempted again.
FallbackRejectsAgain ==
  /\ rPc = "fb"
  /\ \E error \in Errors :
       rTrace' = Append(rTrace, [who |-> "fb", model |-> rCall.fallback,
                                 ok |-> FALSE, error |-> error])
  /\ Len(rTrace) <= MaxRetries + 2
  /\ UNCHANGED <<rPc, rCall, rRetries, rDelay, rResult>>

\* `await fallbackOperation()` rejects: the rejection leaves the catch block.
FallbackRejects ==
  /\ rPc = "fb"
  /\ \E error \in Errors :
       /\ rTrace' = Append(rTrace, [who |-> "fb", model |-> rCall.fallback,
                                    ok |-> FALSE, error |-> error])
       /\ rResult' = [kind |-> "error", error |-> error, by |-> rCall.fallback]
  /\ rPc' = "thrown"
  /\ UNCHANGED <<rCall, rRetries, rDelay>>

(***************************************************************************)
(* ----------------------  APPLICATION ROOT (App.tsx)  ------------------- *)
(***************************************************************************)
VARIABLES
  now,            \* the clock: number of handler runs that have read Date.now()
  currentView,    \* App.currentView
  localStorage,   \* the browser's key-value store: key -> <<>> (null) or <<blob>>
  promptSessions  \* App.promptSessions

appVars == <<now, currentView, localStorage, promptSessions>>

VARIABLE alertShown   \* the text of the last window.alert dialog (NoAlert: none yet)

\* The store is full: localStorage.setItem throws a QuotaExceededError.  Only
\* the handlers of the profile are modelled on a full store; the other
\* sections run on a store that takes the write.
VARIABLE quotaExceeded

envVars == <<quotaExceeded>>

NoAlert == ""
Quiet == UNCHANGED alertShown     \* a step that shows no alert

StorageKeys ==
  {"mirror_ai_profile", "mirror_ai_chat_sessions", "mirror_ai_prompt_sessions",
   "mirror_ai_decisions", "mirror_ai_live_sessions", "mirror_ai_todos"}

\* Date.now() of the n-th handler run; two handler runs are at least 2 ms apart,
\* so that `Date.now() + 1` of one run is not the Date.now() of the next.
DateNow(n) == 2 * n

\* JSON.stringify / JSON.parse of a stored blob.  A value is kept as the
\* one-element sequence holding its serialisation; getItem of a missing key is <<>>.
JSONstringify(value) == <<value>>
JSONparse(blob) == blob[1]
setItem(store, key, value) == [store EXCEPT ![key] = JSONstringify(value)]

MessageRole == [USER |-> "user", MODEL |-> "model", SYSTEM |-> "system"]

\* What the user types.  StrLen is the length of the typed string.
UserInputs == {"hi", "plan my product launch step by step"}
StrLen(content) == IF content = "hi" THEN 2 ELSE 35
Min(a, b) == IF a < b THEN a ELSE b

\* content.slice(0, n) + (ellipsis ? '...' : ''): the title of a session.
Slice(content, n, ellipsis) ==
  [of |-> content, chars |-> Min(StrLen(content), n), dots |-> ellipsis]
DefaultTitle == [of |-> "新对话", chars |-> 3, dots |-> FALSE]

\* Array.prototype.findIndex(s => s.id === id), 1-based; 0 when absent (-1 in JS).
findIndex(sessions, id) ==
  IF \E i \in 1..Len(sessions) : sessions[i].id = id
  THEN CHOOSE i \in 1..Len(sessions) :
         /\ sessions[i].id = id
         /\ \A j \in 1..(i - 1) : sessions[j].id # id
  ELSE 0

\* Mutant of upsertPromptSession: the saved value's own isDeleted is stored.
upsertPromptSessionOverwrite(prev, session) ==
  LET idx == findIndex(prev, session.id) IN
  IF idx > 0 THEN [prev EXCEPT ![idx] = session] ELSE Append(prev, session)

\* The updater of handleSavePromptSession.
upsertPromptSession(prev, session) ==
  LET idx == findIndex(prev, session.id) IN
  IF idx > 0
  THEN [prev EXCEPT ![idx] = [session EXCEPT !.isDeleted = prev[idx].isDeleted]]
  ELSE Append(prev, session)

\* Mutant of setDeleted: the flag of every session is written.
setDeletedAll(prev, id, flag) ==
  [i \in 1..Len(prev) |-> [prev[i] EXCEPT !.isDeleted = flag]]

\* The updater of handleDeletePromptSession (flag = true) and of
\* handleRestorePromptSession (flag = false).
setDeleted(prev, id, flag) ==
  [i \in 1..Len(prev) |->
     IF prev[i].id = id THEN [prev[i] EXCEPT !.isDeleted = flag] ELSE prev[i]]

\* The updater of handleEmptyRecycleBin.
IsActive(s) == ~s.isDeleted

\* Mutant of purgeDeleted: the most recent active session goes with the bin.
purgeDeletedAndLast(prev) ==
  LET kept == SelectSeq(prev, IsActive) IN
  IF Len(kept) > 0 THEN SubSeq(kept, 1, Len(kept) - 1) ELSE kept

purgeDeleted(prev) == SelectSeq(prev, IsActive)   \* prev.filter(s => !s.isDeleted)

\* setPromptSessions(prev => ...) with its localStorage.setItem.
CommitPromptSessions(newSessions) ==
  /\ promptSessions' = newSessions
  /\ localStorage' = setItem(localStorage, "mirror_ai_prompt_sessions", newSessions)

(***************************************************************************)
(* ----------  PROMPT-ENGINEERING ENGINE (PromptEngineer.tsx)  ----------- *)
(***************************************************************************)
VARIABLES
  peMounted,            \* a PromptEngineer instance is mounted (view PROMPT_ENGINEER)
  peCurrentSessionId,   \* useState currentSessionId (NoSession: null)
  peMessages,           \* useState messages
  peIsLoading,          \* useState isLoading
  peShowTrash,          \* useState showTrash
  peInflight            \* the processAIResponse calls awaiting sendChatMessage

peVars == <<peMounted, peCurrentSessionId, peMessages, peIsLoading, peShowTrash, peInflight>>

NoSession == 0      \* currentSessionId === null
WelcomeId == 0      \* the message id 'welcome'

peWelcomeMsg == [id |-> WelcomeId, role |-> MessageRole.MODEL, content |-> "welcome"]

\* The prompt handleAnalyzeTodo builds from a todo's text (template + text).
AnalysisPrompts == {"analyse todo: buy milk"}

\* [...sessions].sort((a, b) => b.timestamp - a.timestamp)[0]  (a stable sort)
MostRecent(sessions) ==
  LET i == CHOOSE i \in 1..Len(sessions) :
             /\ \A j \in 1..Len(sessions) : sessions[j].timestamp <= sessions[i].timestamp
             /\ \A j \in 1..(i - 1) : sessions[j].timestamp < sessions[i].timestamp
  IN sessions[i]

\* finalMessages.find(m => m.role === MessageRole.USER), then the title made of it.
HasUser(msgs) == \E i \in 1..Len(msgs) : msgs[i].role = MessageRole.USER
FirstUser(msgs) ==
  msgs[CHOOSE i \in 1..Len(msgs) :
         /\ msgs[i].role = MessageRole.USER
         /\ \A j \in 1..(i - 1) : msgs[j].role # MessageRole.USER]
peTitle(msgs) ==
  IF HasUser(msgs)
  THEN Slice(FirstUser(msgs).content, 20, StrLen(FirstUser(msgs).content) > 20)
  ELSE DefaultTitle

\* currentMsgs.map(m => ({role: m.role, parts: [{text: m.content}]}))
peHistory(msgs) ==
  [i \in 1..Len(msgs) |-> [role |-> msgs[i].role, text |-> msgs[i].content, context |-> <<>>]]

\* The values a processAIResponse call keeps across its await.  `alive` is
\* whether the component instance that issued it is still mounted.
peRequest(currentMsgs, prompt, sessionId) ==
  [alive |-> TRUE, currentMsgs |-> currentMsgs, prompt |-> prompt,
   sessionId |-> sessionId, history |-> peHistory(currentMsgs)]

PEInit ==
  /\ peMounted = FALSE
  /\ peCurrentSessionId = NoSession
  /\ peMessages = <<>>
  /\ peIsLoading = FALSE
  /\ peShowTrash = FALSE
  /\ peInflight = {}

\* startNewSession(autoSendPrompt), "" standing for no argument; `prev` is the
\* store as left by the updaters queued before its saveSession.
startNewSession(autoSendPrompt, prev) ==
  LET t == DateNow(now + 1)
      userMsg == [id |-> t, role |-> MessageRole.USER, content |-> autoSendPrompt]
      initialMessages == IF autoSendPrompt # "" THEN <<peWelcomeMsg, userMsg>>
                                                ELSE <<peWelcomeMsg>>
      session == [id |-> t,
                  title |-> IF autoSendPrompt # "" THEN Slice(autoSendPrompt, 15, TRUE)
                                                   ELSE DefaultTitle,
                  timestamp |-> t, dateStr |-> t,
                  messages |-> initialMessages, isDeleted |-> FALSE]
  IN
  /\ now < MaxClock
  /\ now' = now + 1
  /\ peShowTrash' = FALSE
  /\ peMessages' = initialMessages
  /\ peCurrentSessionId' = t
  /\ CommitPromptSessions(upsertPromptSession(prev, session))
  /\ IF autoSendPrompt # ""
     THEN /\ peIsLoading' = TRUE      \* processAIResponse: setIsLoading(true), dispatch
          /\ peInflight' = peInflight \cup {peRequest(initialMessages, autoSendPrompt, t)}
     ELSE UNCHANGED <<peIsLoading, peInflight>>

\* loadSession(session)
peLoadSession(session) ==
  /\ peCurrentSessionId' = session.id
  /\ peMessages' = session.messages

\* The sessions the sidebar lists: sessions.filter(s => showTrash ? s.isDeleted : !s.isDeleted)
displaySessions ==
  { i \in 1..Len(promptSessions) : promptSessions[i].isDeleted = peShowTrash }

\* sessions.find(s => s.id === currentSessionId)?.isDeleted
currentSessionIsDeleted ==
  LET idx == findIndex(promptSessions, peCurrentSessionId) IN
  idx > 0 /\ promptSessions[idx].isDeleted

\* PromptEngineer mounts (initialPrompt null): the [initialPrompt] effect loads
\* the most recent active session, or starts a new one when there is none.
peMount ==
  /\ peMounted' = TRUE
  /\ IF Len(purgeDeleted(promptSessions)) > 0
     THEN /\ peLoadSession(MostRecent(purgeDeleted(promptSessions)))
          /\ UNCHANGED <<now, promptSessions, localStorage,
                         peIsLoading, peShowTrash, peInflight>>
     ELSE startNewSession("", promptSessions)

\* PromptEngineer unmounts: its state is gone; the calls it left in flight go on.
peUnmount ==
  /\ peMounted' = FALSE
  /\ peCurrentSessionId' = NoSession
  /\ peMessages' = <<>>
  /\ peIsLoading' = FALSE
  /\ peShowTrash' = FALSE
  /\ peInflight' = { [r EXCEPT !.alive = FALSE] : r \in peInflight }

\* The "new task" button: startNewSession().
PE_NewSession ==
  /\ peMounted
  /\ startNewSession("", promptSessions)
  /\ UNCHANGED <<currentView, peMounted>>

\* handleSend: the guards, the user message, its save, then processAIResponse.
PE_HandleSend ==
  /\ peMounted
  /\ ~peIsLoading
  /\ peCurrentSessionId # NoSession
  /\ ~currentSessionIsDeleted
  /\ now < MaxClock
  /\ \E input \in UserInputs :
       LET t == DateNow(now + 1)
           userMsg == [id |-> t, role |-> MessageRole.USER, content |-> input]
           newMessages == Append(peMessages, userMsg)
       IN
       /\ now' = now + 1
       /\ peMessages' = newMessages
       /\ CommitPromptSessions(upsertPromptSession(promptSessions,
            [id |-> peCurrentSessionId, title |-> peTitle(newMessages),
             timestamp |-> t, dateStr |-> t,
             messages |-> newMessages, isDeleted |-> FALSE]))
       /\ peIsLoading' = TRUE
       /\ peInflight' = peInflight \cup {peRequest(newMessages, input, peCurrentSessionId)}
  /\ UNCHANGED <<currentView, peMounted, peCurrentSessionId, peShowTrash>>

\* processAIResponse after its await, sendChatMessage having resolved.
PE_ReplyArrives ==
  /\ now < MaxClock
  /\ \E r \in peInflight :
       LET t == DateNow(now + 1)
           aiMsg == [id |-> t + 1, role |-> MessageRole.MODEL, content |-> "reply"]
           finalMessages == Append(r.currentMsgs, aiMsg)
       IN
       /\ now' = now + 1
       /\ peMessages' = IF r.alive THEN finalMessages ELSE peMessages
       /\ CommitPromptSessions(upsertPromptSession(promptSessions,
            [id |-> r.sessionId, title |-> peTitle(finalMessages),
             timestamp |-> t, dateStr |-> t,
             messages |-> finalMessages, isDeleted |-> FALSE]))
       /\ peIsLoading' = IF r.alive THEN FALSE ELSE peIsLoading
       /\ peInflight' = peInflight \ {r}
  /\ UNCHANGED <<currentView, peMounted, peCurrentSessionId, peShowTrash>>

\* processAIResponse after its await, sendChatMessage having thrown.
PE_ReplyFails ==
  /\ now < MaxClock
  /\ \E r \in peInflight :
       LET errorMsg == [id |-> DateNow(now + 1), role |-> MessageRole.MODEL,
                        content |-> "error"]
       IN
       /\ now' = now + 1
       /\ peMessages' = IF r.alive THEN Append(peMessages, errorMsg) ELSE peMessages
       /\ peIsLoading' = IF r.alive THEN FALSE ELSE peIsLoading
       /\ peInflight' = peInflight \ {r}
  /\ UNCHANGED <<currentView, localStorage, promptSessions,
                 peMounted, peCurrentSessionId, peShowTrash>>

\* A click on a listed session: loadSession(session).
PE_LoadSession ==
  /\ peMounted
  /\ \E i \in displaySessions : peLoadSession(promptSessions[i])
  /\ UNCHANGED <<appVars, peMounted, peIsLoading, peShowTrash, peInflight>>

\* The list / recycle-bin toggle: setShowTrash.
PE_SetShowTrash ==
  /\ peMounted
  /\ peShowTrash' = ~peShowTrash
  /\ UNCHANGED <<appVars, peMounted, peCurrentSessionId, peMessages, peIsLoading, peInflight>>

\* handleDelete(e, id), confirmed: deleteSession(id), then leave the session
\* if it was the open one (`sessions` being the list of the current render).
PE_HandleDelete ==
  /\ peMounted
  /\ ~peShowTrash
  /\ \E i \in displaySessions :
       LET id == promptSessions[i].id
           deleted == setDeleted(promptSessions, id, TRUE)
           NotIt(x) == ~x.isDeleted /\ x.id # id
           remaining == SelectSeq(promptSessions, NotIt)
       IN
       IF peCurrentSessionId = id
       THEN IF Len(remaining) > 0
            THEN /\ CommitPromptSessions(deleted)
                 /\ peLoadSession(MostRecent(remaining))
                 /\ UNCHANGED <<now, peIsLoading, peShowTrash, peInflight>>
            ELSE startNewSession("", deleted)
       ELSE /\ CommitPromptSessions(deleted)
            /\ UNCHANGED <<now, peCurrentSessionId, peMessages,
                           peIsLoading, peShowTrash, peInflight>>
  /\ UNCHANGED <<currentView, peMounted>>

\* handleRestore(e, id) on a session listed in the recycle bin.
PE_HandleRestore ==
  /\ peMounted
  /\ peShowTrash
  /\ \E i \in displaySessions :
       CommitPromptSessions(setDeleted(promptSessions, promptSessions[i].id, FALSE))
  /\ UNCHANGED <<now, currentView, peVars>>

\* The banner's "restore now" button: restoreSession(currentSessionId).
PE_RestoreCurrent ==
  /\ peMounted
  /\ currentSessionIsDeleted
  /\ CommitPromptSessions(setDeleted(promptSessions, peCurrentSessionId, FALSE))
  /\ UNCHANGED <<now, currentView, peVars>>

\* The "empty recycle bin" button: handleEmptyRecycleBin, `confirmed` being
\* the answer given to window.confirm.
PE_EmptyRecycleBin ==
  /\ peMounted
  /\ peShowTrash
  /\ displaySessions # {}
  /\ \E confirmed \in BOOLEAN :
       IF confirmed
       THEN CommitPromptSessions(purgeDeleted(promptSessions))
       ELSE UNCHANGED <<promptSessions, localStorage>>
  /\ UNCHANGED <<now, currentView, peVars>>

(***************************************************************************)
(* --------------------  PROFILE (App.tsx, Dashboard.tsx)  --------------- *)
(***************************************************************************)
VARIABLES
  profile,        \* App.profile
  chatSessions    \* App.chatSessions

rootVars == <<profile, chatSessions>>

\* A JSON object is a function from the keys it has to JSON values; a key it
\* lacks reads as undefined.  A JSON value is a list of strings ("list"), null,
\* a string ("str", in v) or a date string made from the clock ("time", in n).
Categories ==
  {"values", "personalityTraits", "mentalModels", "workHabits", "decisionPrinciples", "interests"}
ProfileKeys == Categories \cup {"lastUpdated"}

List(items) == [t |-> "list", v |-> items, n |-> 0]
Null == [t |-> "null", v |-> <<>>, n |-> 0]
Str(string) == [t |-> "str", v |-> <<string>>, n |-> 0]
Undefined == [t |-> "undefined", v |-> <<>>, n |-> 0]
toLocaleString(time) == [t |-> "time", v |-> <<>>, n |-> time]

Get(object, key) == IF key \in DOMAIN object THEN object[key] ELSE Undefined
isArray(value) == value.t = "list"                       \* Array.isArray
Truthy(value) == value.t \in {"list", "time"} \/ (value.t = "str" /\ value.v # <<"">>)

\* { ...object, [key]: value }
With(object, key, value) ==
  [k \in DOMAIN object \cup {key} |-> IF k = key THEN value ELSE object[k]]

INITIAL_PROFILE ==
  [k \in ProfileKeys |-> IF k = "lastUpdated" THEN Str("") ELSE List(<<>>)]

\* Mutant of sanitizedProfile: a category is copied as it is.
sanitizedProfileUnchecked(json, time) ==
  [k \in ProfileKeys |->
     IF k = "lastUpdated"
     THEN (IF Truthy(Get(json, k)) THEN Get(json, k) ELSE toLocaleString(time))
     ELSE Get(json, k)]

\* Mutant of sanitizedProfile: lastUpdated is always the time of the import.
sanitizedProfileRestamped(json, time) ==
  [k \in ProfileKeys |->
     IF k = "lastUpdated"
     THEN toLocaleString(time)
     ELSE (IF isArray(Get(json, k)) THEN Get(json, k) ELSE List(<<>>))]

\* Dashboard.handleFileChange: the safe profile object built from an imported file.
sanitizedProfile(json, time) ==
  [k \in ProfileKeys |->
     IF k = "lastUpdated"
     THEN (IF Truthy(Get(json, k)) THEN Get(json, k) ELSE toLocaleString(time))
     ELSE (IF isArray(Get(json, k)) THEN Get(json, k) ELSE List(<<>>))]

\* handleUpdateProfile: { ...newProfile, lastUpdated: new Date().toLocaleString() },
\* set as the profile and written to the store.
handleUpdateProfile(newProfile, time) ==
  LET updated == With(newProfile, "lastUpdated", toLocaleString(time)) IN
  /\ profile' = updated
  /\ localStorage' = IF quotaExceeded THEN localStorage
                                     ELSE setItem(localStorage, "mirror_ai_profile", updated)

\* The objects a profile file chosen for import can hold.
ImportFiles ==
  { [k \in Categories |-> List(<<"honesty">>)],
    [k \in {"values", "lastUpdated"} |-> IF k = "values" THEN Null ELSE Str("2024/1/1")] }

\* The objects the provider's JSON text of a profile analysis can parse to:
\* the schema of runAnalysis names the six categories and requires none.
AnalysisOutputs ==
  { [k \in Categories |-> List(<<"directness">>)],
    [k \in {"values"} |-> List(<<"directness">>)] }

\* What the user types into a card of the dashboard.
CardItems == {"directness"}

(***************************************************************************)
(* -----------------  CHAT TURN ENGINE (ChatSession.tsx)  ---------------- *)
(***************************************************************************)
VARIABLES
  chatMounted,            \* a ChatSession instance is mounted (view CHAT)
  chatCurrentSessionId,   \* useState currentSessionId (NoSession: null)
  chatMessages,           \* useState messages
  chatIsLoading,          \* useState isLoading
  chatIsAnalyzing,        \* useState isAnalyzing
  chatAttachment,         \* useState attachment (NoFile: null)
  chatInflight            \* the handleSend / runAnalysis calls awaiting the gateway

chatVars == <<chatMounted, chatCurrentSessionId, chatMessages, chatIsLoading,
              chatIsAnalyzing, chatAttachment, chatInflight>>

ContextLimit == 20      \* newMessages.slice(-20)
AnalysisLimit == 50     \* messages.slice(-50)

NoFile == "none"                   \* no attachment (null / undefined)
Files == {"notes.pdf"}             \* the files the user can attach
ChatInputs == UserInputs \cup {""}  \* the composer may be empty when a file is attached

chatWelcomeMsg ==
  [id |-> WelcomeId, role |-> MessageRole.SYSTEM, content |-> "welcome", fileData |-> NoFile]

\* array.slice(-n)
SliceLast(seq, n) ==
  IF Len(seq) <= n THEN seq ELSE SubSeq(seq, Len(seq) - n + 1, Len(seq))
\* array.slice(0, -1)
DropLast(seq) == SubSeq(seq, 1, Len(seq) - 1)

NotSystem(m) == m.role # MessageRole.SYSTEM

\* The text put before the first message of the history:
\* `[System Context: Current User Profile (Values/Traits): ${JSON.stringify(profile)}]\n\n`
ProfileContext(p) == <<JSONstringify(p)>>

\* Mutant of buildHistory: the profile context is put before every message.
buildHistoryEveryMessage(newMessages, p) ==
  LET kept == SelectSeq(SliceLast(newMessages, ContextLimit), NotSystem) IN
  [i \in 1..Len(kept) |->
     [role |-> kept[i].role, text |-> kept[i].content, context |-> ProfileContext(p)]]

\* handleSend: recentMessages, history, and the profile context put before
\* the text of history[0].
buildHistory(newMessages, p) ==
  LET kept == SelectSeq(SliceLast(newMessages, ContextLimit), NotSystem) IN
  [i \in 1..Len(kept) |->
     [role |-> kept[i].role, text |-> kept[i].content,
      context |-> IF i = 1 THEN ProfileContext(p) ELSE <<>>]]

\* handleSave: the title made of the first user message.
chatTitle(msgs) ==
  IF HasUser(msgs)
  THEN Slice(FirstUser(msgs).content, 15, StrLen(FirstUser(msgs).content) > 15)
  ELSE DefaultTitle

\* The updater of handleSaveChatSession.
upsertChatSession(prev, session) ==
  LET idx == findIndex(prev, session.id) IN
  IF idx > 0 THEN [prev EXCEPT ![idx] = session] ELSE Append(prev, session)

\* setChatSessions(prev => ...) with its localStorage.setItem.
CommitChatSessions(newSessions) ==
  /\ chatSessions' = newSessions
  /\ localStorage' = setItem(localStorage, "mirror_ai_chat_sessions", newSessions)

\* handleSave(updatedMessages) of a render whose currentSessionId is sessionId.
handleSave(sessionId, updatedMessages, time) ==
  IF sessionId = NoSession
  THEN UNCHANGED <<chatSessions, localStorage>>
  ELSE CommitChatSessions(upsertChatSession(chatSessions,
         [id |-> sessionId, title |-> chatTitle(updatedMessages),
          timestamp |-> time, dateStr |-> time, messages |-> updatedMessages]))

\* The values a handleSend call keeps across its await; `retry` is
\* retryContent !== undefined.
sendRequest(sessionId, newMessages, content, file, p, retry) ==
  [kind |-> "send", alive |-> TRUE, sessionId |-> sessionId, retry |-> retry,
   messages |-> newMessages, content |-> content, fileData |-> file, profile |-> p]

\* The history a handleSend call passes to sendChatMessage.
history(r) == buildHistory(r.messages, r.profile)

\* The values a runAnalysis call keeps across its await.
analysisRequest(sessionId, messages, p) ==
  [kind |-> "analysis", alive |-> TRUE, sessionId |-> sessionId, retry |-> FALSE,
   messages |-> messages, content |-> "", fileData |-> NoFile, profile |-> p]

\* The log a runAnalysis call passes to analyzeProfile: messages.slice(-50).
log(r) ==
  [i \in 1..Len(SliceLast(r.messages, AnalysisLimit)) |->
     [role |-> SliceLast(r.messages, AnalysisLimit)[i].role,
      text |-> SliceLast(r.messages, AnalysisLimit)[i].content]]

ChatInit ==
  /\ chatMounted = FALSE
  /\ chatCurrentSessionId = NoSession
  /\ chatMessages = <<>>
  /\ chatIsLoading = FALSE
  /\ chatIsAnalyzing = FALSE
  /\ chatAttachment = NoFile
  /\ chatInflight = {}

\* initNewSession
initNewSession ==
  LET t == DateNow(now + 1) IN
  /\ now < MaxChatClock
  /\ now' = now + 1
  /\ chatMessages' = <<chatWelcomeMsg>>
  /\ chatCurrentSessionId' = t
  /\ CommitChatSessions(upsertChatSession(chatSessions,
       [id |-> t, title |-> DefaultTitle, timestamp |-> t, dateStr |-> t,
        messages |-> <<chatWelcomeMsg>>]))

\* loadSession(session)
chatLoadSession(session) ==
  /\ chatCurrentSessionId' = session.id
  /\ chatMessages' = session.messages
  /\ chatAttachment' = NoFile

\* ChatSession mounts: the init effect loads the most recent session or starts one.
chatMount ==
  /\ chatMounted' = TRUE
  /\ IF Len(chatSessions) > 0
     THEN /\ chatLoadSession(MostRecent(chatSessions))
          /\ UNCHANGED <<now, chatSessions, localStorage>>
     ELSE initNewSession /\ UNCHANGED chatAttachment
  /\ UNCHANGED <<chatIsLoading, chatIsAnalyzing, chatInflight>>

\* ChatSession unmounts: its state is gone; the calls it left in flight go on.
chatUnmount ==
  /\ chatMounted' = FALSE
  /\ chatCurrentSessionId' = NoSession
  /\ chatMessages' = <<>>
  /\ chatIsLoading' = FALSE
  /\ chatIsAnalyzing' = FALSE
  /\ chatAttachment' = NoFile
  /\ chatInflight' = { [r EXCEPT !.alive = FALSE] : r \in chatInflight }

\* The "new chat" button: initNewSession().
Chat_InitNewSession ==
  /\ chatMounted
  /\ initNewSession
  /\ UNCHANGED <<currentView, promptSessions, profile, chatMounted, chatIsLoading,
                 chatIsAnalyzing, chatAttachment, chatInflight>>

\* A click on a session of the sidebar: loadSession(session).
Chat_LoadSession ==
  /\ chatMounted
  /\ \E i \in 1..Len(chatSessions) : chatLoadSession(chatSessions[i])
  /\ UNCHANGED <<appVars, rootVars, chatMounted, chatIsLoading, chatIsAnalyzing, chatInflight>>

\* handleFileChange (a file is attached) and the button that removes it.
Chat_SetAttachment ==
  /\ chatMounted
  /\ \E f \in Files \cup {NoFile} : f # chatAttachment /\ chatAttachment' = f
  /\ UNCHANGED <<appVars, rootVars, chatMounted, chatCurrentSessionId, chatMessages,
                 chatIsLoading, chatIsAnalyzing, chatInflight>>

\* The guard of handleSend.
sendRefused(contentToSend, attachmentToSend) ==
  (contentToSend = "" /\ attachmentToSend = NoFile) \/ chatIsLoading \/ chatIsAnalyzing

\* handleSend() from the composer: the user message is added and saved, then
\* the turn is dispatched.
Chat_HandleSendWithin(limit) ==
  /\ chatMounted
  /\ Cardinality(chatInflight) < MaxPending
  /\ now < limit
  /\ \E input \in ChatInputs :
       LET t == DateNow(now + 1)
           userMsg == [id |-> t, role |-> MessageRole.USER, content |-> input,
                       fileData |-> chatAttachment]
           newMessages == Append(chatMessages, userMsg)
       IN
       /\ ~sendRefused(input, chatAttachment)
       /\ now' = now + 1
       /\ chatMessages' = newMessages
       /\ handleSave(chatCurrentSessionId, newMessages, t)
       /\ chatAttachment' = NoFile
       /\ chatIsLoading' = TRUE
       /\ chatInflight' = chatInflight \cup
            {sendRequest(chatCurrentSessionId, newMessages, input, chatAttachment,
                         profile, FALSE)}
  /\ UNCHANGED <<currentView, promptSessions, profile, chatMounted,
                 chatCurrentSessionId, chatIsAnalyzing>>

Chat_HandleSend == Chat_HandleSendWithin(MaxChatClock)

\* handleRegenerate, from the retry button shown under a last message of the
\* model while nothing is loading.  setMessages(msgsToKeep) is queued, and
\* handleSend(content, fileData) runs in the same render: its `messages` is the
\* log the button was rendered with.
Chat_HandleRegenerate ==
  /\ chatMounted
  /\ Cardinality(chatInflight) < MaxPending
  /\ Len(chatMessages) > 0
  /\ ~chatIsLoading
  /\ chatMessages[Len(chatMessages)].role = MessageRole.MODEL
  /\ LET lastMsg == chatMessages[Len(chatMessages)]
         msgsToKeep == IF lastMsg.role = MessageRole.MODEL
                       THEN DropLast(chatMessages) ELSE chatMessages
         hasRetry == /\ lastMsg.role \in {MessageRole.MODEL, MessageRole.USER}
                     /\ Len(msgsToKeep) > 0
                     /\ msgsToKeep[Len(msgsToKeep)].role = MessageRole.USER
         userMsgToRetry == msgsToKeep[Len(msgsToKeep)]
         contentToSend == userMsgToRetry.content
         attachmentToSend == IF userMsgToRetry.fileData # NoFile
                             THEN userMsgToRetry.fileData ELSE chatAttachment
     IN
     /\ hasRetry
     /\ chatMessages' = msgsToKeep
     /\ IF sendRefused(contentToSend, attachmentToSend)
        THEN UNCHANGED <<chatIsLoading, chatInflight>>
        ELSE /\ chatIsLoading' = TRUE
             /\ chatInflight' = chatInflight \cup
                  {sendRequest(chatCurrentSessionId, chatMessages, contentToSend,
                               attachmentToSend, profile, TRUE)}
  /\ UNCHANGED <<appVars, rootVars, chatMounted, chatCurrentSessionId,
                 chatIsAnalyzing, chatAttachment>>

\* handleSend after its await, sendChatMessage having resolved.
Chat_ReplyArrivesWithin(limit) ==
  /\ now < limit
  /\ \E r \in chatInflight :
       LET t == DateNow(now + 1)
           aiMsg == [id |-> t + 1, role |-> MessageRole.MODEL, content |-> "reply",
                     fileData |-> NoFile]
           finalMessages == Append(r.messages, aiMsg)
       IN
       /\ r.kind = "send"
       /\ now' = now + 1
       /\ chatMessages' = IF r.alive THEN finalMessages ELSE chatMessages
       /\ handleSave(r.sessionId, finalMessages, t)
       /\ chatIsLoading' = IF r.alive THEN FALSE ELSE chatIsLoading
       /\ chatInflight' = chatInflight \ {r}
  /\ UNCHANGED <<currentView, promptSessions, profile, chatMounted,
                 chatCurrentSessionId, chatIsAnalyzing, chatAttachment>>

Chat_ReplyArrives == Chat_ReplyArrivesWithin(MaxChatClock)

\* Mutant of Chat_ReplyFails: the error is swallowed, no message is shown.
Chat_ReplyFailsSilently ==
  /\ now < MaxChatClock
  /\ \E r \in chatInflight :
       /\ r.kind = "send"
       /\ now' = now + 1
       /\ chatMessages' = chatMessages
       /\ chatIsLoading' = IF r.alive THEN FALSE ELSE chatIsLoading
       /\ chatInflight' = chatInflight \ {r}
  /\ UNCHANGED <<currentView, localStorage, promptSessions, rootVars, chatMounted,
                 chatCurrentSessionId, chatIsAnalyzing, chatAttachment>>

\* Mutant of Chat_ReplyFailsWithin: the catch block without the finally block.
Chat_ReplyFailsStaysBusy(limit) ==
  /\ now < limit
  /\ \E r \in chatInflight :
       LET errMsg == [id |-> DateNow(now + 1), role |-> MessageRole.MODEL,
                      content |-> "error", fileData |-> NoFile]
       IN
       /\ r.kind = "send"
       /\ now' = now + 1
       /\ chatMessages' = IF r.alive THEN Append(chatMessages, errMsg) ELSE chatMessages
       /\ chatIsLoading' = chatIsLoading
       /\ chatInflight' = chatInflight \ {r}
  /\ UNCHANGED <<currentView, localStorage, promptSessions, rootVars, chatMounted,
                 chatCurrentSessionId, chatIsAnalyzing, chatAttachment>>

\* handleSend after its await, sendChatMessage having thrown.
Chat_ReplyFailsWithin(limit) ==
  /\ now < limit
  /\ \E r \in chatInflight :
       LET errMsg == [id |-> DateNow(now + 1), role |-> MessageRole.MODEL,
                      content |-> "error", fileData |-> NoFile]
       IN
       /\ r.kind = "send"
       /\ now' = now + 1
       /\ chatMessages' = IF r.alive THEN Append(chatMessages, errMsg) ELSE chatMessages
       /\ chatIsLoading' = IF r.alive THEN FALSE ELSE chatIsLoading
       /\ chatInflight' = chatInflight \ {r}
  /\ UNCHANGED <<currentView, localStorage, promptSessions, rootVars, chatMounted,
                 chatCurrentSessionId, chatIsAnalyzing, chatAttachment>>

Chat_ReplyFails == Chat_ReplyFailsWithin(MaxChatClock)

\* runAnalysis up to its await (the button is disabled under two messages).
Chat_RunAnalysis ==
  /\ chatMounted
  /\ Cardinality(chatInflight) < MaxPending
  /\ ~chatIsLoading
  /\ ~chatIsAnalyzing
  /\ Len(chatMessages) >= 2
  /\ chatIsAnalyzing' = TRUE
  /\ chatInflight' = chatInflight \cup
       {analysisRequest(chatCurrentSessionId, chatMessages, profile)}
  /\ UNCHANGED <<appVars, rootVars, chatMounted, chatCurrentSessionId, chatMessages,
                 chatIsLoading, chatAttachment>>

\* runAnalysis after its await, analyzeProfile having returned JSON.parse(text):
\* updateProfile(newProfile), then the confirmation message and its save.
Chat_AnalysisArrives ==
  /\ now < MaxChatClock
  /\ \E r \in chatInflight, newProfile \in AnalysisOutputs :
       LET t == DateNow(now + 1)
           sysMsg == [id |-> t, role |-> MessageRole.SYSTEM, content |-> "profile updated",
                      fileData |-> NoFile]
           finalMessages == Append(r.messages, sysMsg)
           updated == With(newProfile, "lastUpdated", toLocaleString(t))
       IN
       /\ r.kind = "analysis"
       /\ now' = now + 1
       /\ profile' = updated
       /\ chatMessages' = IF r.alive THEN finalMessages ELSE chatMessages
       /\ IF r.sessionId = NoSession
          THEN /\ chatSessions' = chatSessions
               /\ localStorage' = setItem(localStorage, "mirror_ai_profile", updated)
          ELSE LET newSessions == upsertChatSession(chatSessions,
                     [id |-> r.sessionId, title |-> chatTitle(finalMessages),
                      timestamp |-> t, dateStr |-> t, messages |-> finalMessages])
               IN /\ chatSessions' = newSessions
                  /\ localStorage' =
                       setItem(setItem(localStorage, "mirror_ai_profile", updated),
                               "mirror_ai_chat_sessions", newSessions)
       /\ chatIsAnalyzing' = IF r.alive THEN FALSE ELSE chatIsAnalyzing
       /\ chatInflight' = chatInflight \ {r}
  /\ UNCHANGED <<currentView, promptSessions, chatMounted, chatCurrentSessionId,
                 chatIsLoading, chatAttachment>>

\* Mutant of Chat_AnalysisFails: the confirmation message is appended although
\* the analysis failed.
Chat_AnalysisFailsConfirms ==
  /\ \E r \in chatInflight :
       /\ r.kind = "analysis"
       /\ alertShown' = "analysis failed"
       /\ chatMessages' = Append(chatMessages,
            [id |-> DateNow(now), role |-> MessageRole.SYSTEM,
             content |-> "profile updated", fileData |-> NoFile])
       /\ chatIsAnalyzing' = IF r.alive THEN FALSE ELSE chatIsAnalyzing
       /\ chatInflight' = chatInflight \ {r}
  /\ UNCHANGED <<appVars, rootVars, chatMounted, chatCurrentSessionId,
                 chatIsLoading, chatAttachment>>

\* runAnalysis after its await, analyzeProfile having thrown (gateway error,
\* empty text, JSON.parse error): the alert, then finally.
Chat_AnalysisFails ==
  /\ \E r \in chatInflight :
       /\ r.kind = "analysis"
       /\ alertShown' = "analysis failed"
       /\ chatIsAnalyzing' = IF r.alive THEN FALSE ELSE chatIsAnalyzing
       /\ chatInflight' = chatInflight \ {r}
  /\ UNCHANGED <<appVars, rootVars, chatMounted, chatCurrentSessionId, chatMessages,
                 chatIsLoading, chatAttachment>>

(***************************************************************************)
(* The dashboard's profile handlers (Dashboard.tsx).                       *)
(***************************************************************************)
\* handleFileChange: the file is parsed, sanitised and, confirmed, imported.
Dashboard_ImportProfile ==
  /\ currentView = "DASHBOARD"
  /\ now < MaxClock
  /\ \E json \in ImportFiles :
       handleUpdateProfile(sanitizedProfile(json, DateNow(now + 1)), DateNow(now + 1))
  /\ alertShown' = IF quotaExceeded THEN "import failed" ELSE "profile imported"
  /\ now' = now + 1
  /\ UNCHANGED <<currentView, promptSessions, chatSessions>>

\* Card.handleAddItem -> updateProfileSection(key, [...safeItems, item])
Dashboard_AddItem ==
  /\ currentView = "DASHBOARD"
  /\ now < MaxClock
  /\ \E key \in Categories, item \in CardItems :
       LET items == Get(profile, key)
           safeItems == IF isArray(items) THEN items.v ELSE <<>>
       IN
       /\ \A i \in 1..Len(safeItems) : safeItems[i] # item
       /\ handleUpdateProfile(With(profile, key, List(Append(safeItems, item))),
                              DateNow(now + 1))
  /\ now' = now + 1
  /\ UNCHANGED <<currentView, promptSessions, chatSessions>>

\* Card.handleRemoveItem(index) -> updateProfileSection(key, newItems)
Dashboard_RemoveItem ==
  /\ currentView = "DASHBOARD"
  /\ now < MaxClock
  /\ \E key \in Categories :
       LET items == Get(profile, key)
           safeItems == IF isArray(items) THEN items.v ELSE <<>>
       IN
       \E index \in 1..Len(safeItems) :
         handleUpdateProfile(
           With(profile, key,
                List(SubSeq(safeItems, 1, index - 1) \o SubSeq(safeItems, index + 1, Len(safeItems)))),
           DateNow(now + 1))
  /\ now' = now + 1
  /\ UNCHANGED <<currentView, promptSessions, chatSessions>>

(***************************************************************************)
(* -----------  THE SANITIZE STEP OF THE IMPORT, ON ITS OWN  ------------- *)
(* An object as JSON.parse can return it, the safe profile built from it,  *)
(* and the safe profile built from that one.                               *)
(***************************************************************************)
VARIABLES
  sanJson,     \* the parsed file
  sanOnce,     \* sanitizedProfile of sanJson, once built
  sanTwice     \* sanitizedProfile of sanOnce, once built

sanVars == <<sanJson, sanOnce, sanTwice>>

NotBuilt == <<>>     \* no safe profile is the empty object: it has seven properties

\* What a property of the parsed file can hold; Undefined stands for a
\* property that is not there.
CategoryValues == {Undefined, Null, Str("text"), List(<<"honesty">>)}
LastUpdatedValues == {Undefined, Null, Str(""), Str("2024/1/1")}

Object(values) == [k \in {key \in DOMAIN values : values[key] # Undefined} |-> values[k]]

ImportObjects ==
  { Object([k \in ProfileKeys |-> IF k = "lastUpdated" THEN last ELSE lists[k]]) :
      lists \in [Categories -> CategoryValues], last \in LastUpdatedValues }

SanIdle ==
  /\ sanJson = NotBuilt
  /\ sanOnce = NotBuilt
  /\ sanTwice = NotBuilt

\* new Date() is read where json.lastUpdated is falsy.
ReadsClock(json) == ~Truthy(Get(json, "lastUpdated"))

Sanitize_File ==
  /\ sanOnce = NotBuilt
  /\ sanOnce' = sanitizedProfile(sanJson, DateNow(now + 1))
  /\ now' = IF ReadsClock(sanJson) THEN now + 1 ELSE now
  /\ UNCHANGED <<sanJson, sanTwice>>

Sanitize_Sanitized ==
  /\ sanOnce # NotBuilt
  /\ sanTwice = NotBuilt
  /\ sanTwice' = sanitizedProfile(sanOnce, DateNow(now + 1))
  /\ now' = IF ReadsClock(sanOnce) THEN now + 1 ELSE now
  /\ UNCHANGED <<sanJson, sanOnce>>

(***************************************************************************)
(* -----------  DECISION SIMULATOR (CreativeStudio.tsx, App.tsx)  -------- *)
(***************************************************************************)
VARIABLES
  decisions,        \* App.decisions
  dsMounted,        \* a DecisionSimulator instance is mounted (view DECISION_SIM)
  dsIsSimulating,   \* useState isSimulating
  dsUseExperts,     \* useState useExperts
  dsInflight        \* the handleSimulate calls awaiting simulateHybridDecision

decisionVars == <<decisions, dsMounted, dsIsSimulating, dsUseExperts, dsInflight>>

Questions == {"take the offer?"}    \* what the user asks

\* profile.values.length === 0 && profile.decisionPrinciples.length === 0, and
\* the TypeError of `.length` read on a category that is not there.
lengthThrows(value) == value.t \in {"undefined", "null"}
isEmptyList(value) == value.t = "list" /\ value.v = <<>>
simulateRefused(p) ==
  \/ lengthThrows(Get(p, "values"))
  \/ /\ isEmptyList(Get(p, "values"))
     /\ \/ lengthThrows(Get(p, "decisionPrinciples"))
        \/ isEmptyList(Get(p, "decisionPrinciples"))

\* Mutant of contextProfile: the snapshot is taken of the profile the
\* application holds when the simulation returns.
contextProfileLatest(captured, latest) == JSONparse(JSONstringify(latest))

\* contextProfile: JSON.parse(JSON.stringify(profile)), `profile` being the prop
\* of the render handleSimulate was invoked in.
contextProfile(captured, latest) == JSONparse(JSONstringify(captured))

\* The values a handleSimulate call keeps across its await: the props profile
\* and addDecision (which closes over App's decisions) and the question.
simulateRequest(question) ==
  [alive |-> TRUE, question |-> question, profile |-> profile, decisions |-> decisions,
   useExperts |-> dsUseExperts]

\* What generateContent resolves with: response.text, and what JSON.parse
\* makes of it (`valid` is FALSE when JSON.parse throws a SyntaxError).
Completion(text, valid, json) == [text |-> text, valid |-> valid, json |-> json]

Expert(keys) == [k \in keys |-> Str(k)]
FullExpert == Expert({"role", "style", "opinion"})

\* The answers to the request of the plain simulation: free text, or none.
PlainCompletions ==
  { Completion("I would take it", FALSE, <<>>) }

\* The answers to the request of the expert simulation.  The responseSchema
\* declares no required property and no minItems / maxItems.
ExpertCompletions ==
  { Completion("", FALSE, <<>>),
    Completion("not json", FALSE, <<>>),
    Completion("A", TRUE, [decision |-> Str("A"),
                           experts |-> List(<<FullExpert, FullExpert, FullExpert>>)]),
    Completion("B", TRUE, [decision |-> Str("B"),
                           experts |-> List(<<FullExpert, FullExpert>>)]),
    Completion("C", TRUE, [decision |-> Str("C"),
                           experts |-> List(<<FullExpert, FullExpert,
                                              Expert({"role", "style"})>>)]),
    Completion("D", TRUE, [decision |-> Str("D")]),
    Completion("E", TRUE, [experts |-> List(<<FullExpert, FullExpert, FullExpert>>)]) }

Thrown == [ok |-> FALSE, value |-> <<>>]
Returned(value) == [ok |-> TRUE, value |-> value]

\* runSim: { decision: response.text || "...", experts: [] }.
runSim(c) ==
  Returned([decision |-> Str(IF c.text = "" THEN "no decision generated" ELSE c.text),
            experts |-> List(<<>>)])

\* runExpertSim after its await: throws on an empty text and where JSON.parse
\* throws, returns { decision: json.decision, experts: json.experts } otherwise.
runExpertSim(c) ==
  IF c.text = "" \/ ~c.valid
    THEN Thrown
    ELSE Returned([decision |-> Get(c.json, "decision"), experts |-> Get(c.json, "experts")])

\* simulateHybridDecision, as far as the completion it ends on decides.
simulateHybridDecision(useExperts, c) ==
  IF useExperts THEN runExpertSim(c) ELSE runSim(c)

DSInit ==
  /\ dsMounted = FALSE
  /\ dsIsSimulating = FALSE
  /\ dsUseExperts = FALSE
  /\ dsInflight = {}

dsMount ==
  /\ dsMounted' = TRUE
  /\ UNCHANGED <<dsIsSimulating, dsUseExperts, dsInflight>>

\* DecisionSimulator unmounts: the calls it left in flight go on.
dsUnmount ==
  /\ dsMounted' = FALSE
  /\ dsIsSimulating' = FALSE
  /\ dsUseExperts' = FALSE
  /\ dsInflight' = { [r EXCEPT !.alive = FALSE] : r \in dsInflight }

\* The expert checkbox: setUseExperts(e.target.checked).
Decision_SetUseExperts ==
  /\ dsMounted
  /\ dsUseExperts' = ~dsUseExperts
  /\ UNCHANGED <<appVars, rootVars, decisions, dsMounted, dsIsSimulating, dsInflight>>

\* handleSimulate up to its await.
Decision_HandleSimulate ==
  /\ dsMounted
  /\ ~dsIsSimulating
  /\ ~simulateRefused(profile)
  /\ Cardinality(dsInflight) < MaxPending
  /\ \E question \in Questions :
       dsInflight' = dsInflight \cup {simulateRequest(question)}
  /\ dsIsSimulating' = TRUE
  /\ UNCHANGED <<appVars, rootVars, decisions, dsMounted, dsUseExperts>>

\* handleSimulate after its await, simulateHybridDecision having resolved:
\* the record is built and handed to handleAddDecision.
Decision_Resolves(completions) ==
  /\ now < MaxClock
  /\ \E r \in dsInflight, c \in completions :
       LET result == simulateHybridDecision(r.useExperts, c)
           t == DateNow(now + 1)
           newRecord == [id |-> t, timestamp |-> t, question |-> r.question,
                         decision |-> result.value.decision,
                         expertOpinions |-> result.value.experts,
                         contextProfile |-> contextProfile(r.profile, profile)]
           newDecisions == Append(r.decisions, newRecord)
       IN
       /\ result.ok
       /\ now' = now + 1
       /\ decisions' = newDecisions
       /\ localStorage' = setItem(localStorage, "mirror_ai_decisions", newDecisions)
       /\ dsIsSimulating' = IF r.alive THEN FALSE ELSE dsIsSimulating
       /\ dsInflight' = dsInflight \ {r}
  /\ UNCHANGED <<currentView, promptSessions, rootVars, dsMounted, dsUseExperts>>

\* handleSimulate after its await, simulateHybridDecision having thrown:
\* the alert, then finally.
Decision_Fails ==
  /\ alertShown' = "simulation failed"
  /\ \E r \in dsInflight :
       /\ dsIsSimulating' = IF r.alive THEN FALSE ELSE dsIsSimulating
       /\ dsInflight' = dsInflight \ {r}
  /\ UNCHANGED <<appVars, rootVars, decisions, dsMounted, dsUseExperts>>

(***************************************************************************)
(* -----------  TASK EXTRACTION (ChatSession.tsx, gemini.ts, App.tsx)  --- *)
(***************************************************************************)
VARIABLES
  todos,             \* App.todos
  chatIsExtracting,  \* useState isExtracting of ChatSession
  exInflight         \* the handleExtractTasks calls awaiting extractTasksFromText

todoVars == <<todos, chatIsExtracting, exInflight>>

\* The answers to the request of the extractor.  The responseSchema declares
\* the property tasks and does not require it.
TaskCompletions ==
  { Completion("", FALSE, <<>>),
    Completion("not json", FALSE, <<>>),
    Completion("none", TRUE, [tasks |-> List(<<>>)]),
    Completion("one", TRUE, [tasks |-> List(<<"book venue">>)]),
    Completion("two", TRUE, [tasks |-> List(<<"draft plan", "send invites">>)]),
    Completion("no tasks", TRUE, <<>>) }

\* runExtraction after its await:
\* JSON.parse(response.text || '{"tasks": []}') and json.tasks || [].
runExtraction(c) ==
  LET json == IF c.text = "" THEN [tasks |-> List(<<>>)] ELSE c.json
      tasks == Get(json, "tasks")
  IN IF c.text # "" /\ ~c.valid
       THEN Thrown
       ELSE Returned(IF Truthy(tasks) THEN tasks ELSE List(<<>>))

\* handleAddTodos: one item per task, after the todos of the render in which
\* the handler was created.
newItems(tasks, time) ==
  [i \in 1..Len(tasks) |->
     [id |-> <<time, i>>, text |-> tasks[i], completed |-> FALSE, timestamp |-> time]]
handleAddTodos(seen, tasks, time) ==
  /\ todos' = seen \o newItems(tasks, time)
  /\ localStorage' = setItem(localStorage, "mirror_ai_todos", seen \o newItems(tasks, time))

ExInit ==
  /\ chatIsExtracting = FALSE
  /\ exInflight = {}

\* ChatSession unmounts, if it is mounted: the extractions it left in flight
\* go on.
exUnmountIfMounted ==
  /\ todos' = todos
  /\ IF chatMounted
       THEN /\ chatIsExtracting' = FALSE
            /\ exInflight' = { [r EXCEPT !.alive = FALSE] : r \in exInflight }
       ELSE UNCHANGED <<chatIsExtracting, exInflight>>

\* handleExtractTasks up to its await.
Chat_HandleExtractTasks ==
  /\ chatMounted
  /\ ~chatIsExtracting
  /\ Len(chatMessages) >= 2
  /\ Cardinality(exInflight) < MaxPending
  /\ chatIsExtracting' = TRUE
  /\ exInflight' = exInflight \cup {[alive |-> TRUE, todos |-> todos]}
  /\ UNCHANGED <<appVars, rootVars, todos, alertShown>>

\* handleExtractTasks after its await, extractTasksFromText having resolved
\* with the tasks of the completion it ended on.
Chat_ExtractionResolves(completions) ==
  /\ \E r \in exInflight, c \in completions :
       LET result == runExtraction(c) IN
       /\ result.ok
       /\ IF Len(result.value.v) > 0
            THEN /\ now < MaxClock
                 /\ now' = now + 1
                 /\ handleAddTodos(r.todos, result.value.v, DateNow(now + 1))
                 /\ alertShown' = "tasks added"
            ELSE /\ alertShown' = "nothing actionable"
                 /\ UNCHANGED <<now, localStorage, todos>>
       /\ chatIsExtracting' = IF r.alive THEN FALSE ELSE chatIsExtracting
       /\ exInflight' = exInflight \ {r}
  /\ UNCHANGED <<currentView, promptSessions, rootVars>>

\* handleExtractTasks after its await, extractTasksFromText having thrown.
Chat_ExtractionFails ==
  /\ \E r \in exInflight :
       /\ chatIsExtracting' = IF r.alive THEN FALSE ELSE chatIsExtracting
       /\ exInflight' = exInflight \ {r}
  /\ alertShown' = "extraction failed"
  /\ UNCHANGED <<appVars, rootVars, todos>>

\* The texts typed into the todo panel or taken from a text selection.
TodoTexts == {"buy milk"}
MaxTodoClock == 2    \* Date.now() readings up to which todos are deleted

\* handleAddTodo(text), from the todo panel or a text selection of any view.
App_HandleAddTodo ==
  /\ now < MaxClock
  /\ now' = now + 1
  /\ \E text \in TodoTexts :
       LET newTodo == [id |-> <<DateNow(now + 1), 0>>, text |-> text, completed |-> FALSE,
                       timestamp |-> DateNow(now + 1)]
       IN
       /\ todos' = Append(todos, newTodo)
       /\ localStorage' = setItem(localStorage, "mirror_ai_todos", Append(todos, newTodo))
  /\ UNCHANGED <<currentView, promptSessions, rootVars, chatIsExtracting, exInflight,
                 alertShown>>

\* handleDeleteTodo(id), from the todo panel.
App_HandleDeleteTodo ==
  /\ now < MaxTodoClock
  /\ \E i \in 1..Len(todos) :
       LET Other(t) == t.id # todos[i].id      \* t => t.id !== id
           newTodos == SelectSeq(todos, Other)
       IN
       /\ todos' = newTodos
       /\ localStorage' = setItem(localStorage, "mirror_ai_todos", newTodos)
  /\ UNCHANGED <<now, currentView, promptSessions, rootVars, chatIsExtracting, exInflight,
                 alertShown>>

(***************************************************************************)
(* ------------------  LIVE SESSION (Translator.tsx: LiveSession)  ------- *)
(* One LiveSession instance with its refs, the connections it opened and   *)
(* the records App keeps.  A connection is named by the number of the      *)
(* startSession run that opened it; the output AudioContext of that run    *)
(* carries the same number.  Text is the sequence of the transcription     *)
(* deltas it was concatenated from, a delta being named by the connection  *)
(* it arrived on.                                                          *)
(***************************************************************************)
VARIABLES
  liveSessions,           \* App useState liveSessions
  lsMounted,              \* a LiveSession instance is mounted (view VOICE)
  lsHistoryAtMount,       \* liveSessions in the saveRecord closed over by the unmount effect
  lsIsActive,             \* useState isActive; activeRef is set with it
  lsStarted,              \* number of startSession runs of the instance
  lsConn,                 \* state of the connection of each startSession run
  lsDecoding,             \* onmessage runs waiting at `await decodeAudioData`, oldest first
  audioContextRef,        \* NoContext (null) or the run whose output context it holds
  currentTime,            \* currentTime of that output context
  nextStartTimeRef,
  sourcesRef,             \* the sources started and neither ended nor cleared
  startTimeRef,
  currentTranscriptRef,
  userTextBuffer,
  modelTextBuffer,
  inputContexts,          \* the input context and capture pipeline of each startSession run
  realtimeInput           \* the last sendRealtimeInput call (NoInput: none yet)

captureVars == <<inputContexts, realtimeInput>>
liveVars == <<liveSessions, lsMounted, lsHistoryAtMount, lsIsActive, lsStarted, lsConn,
              lsDecoding, audioContextRef, currentTime, nextStartTimeRef, sourcesRef,
              startTimeRef, currentTranscriptRef, userTextBuffer, modelTextBuffer,
              captureVars>>
lsRefs == <<lsIsActive, lsStarted, lsConn, lsDecoding, audioContextRef, currentTime,
            nextStartTimeRef, sourcesRef, startTimeRef, currentTranscriptRef,
            userTextBuffer, modelTextBuffer, captureVars>>

MaxLiveSessions == 2    \* startSession runs of one instance
MaxLiveClock == 3       \* Date.now() readings of the live session handlers
MaxTime == 2            \* currentTime of an output context
MaxSources == 2         \* audio frames decoding or scheduled at once
MaxText == 3            \* deltas held in the speaker buffers and the transcript
MaxEntries == 1         \* transcript entries before a turn-complete signal is taken

NoContext == 0
NoInput == [run |-> 0, connection |-> "none", started |-> 0]
\* inputContextRef is assigned, closed and cleared together with audioContextRef.
inputContextRef == audioContextRef
LiveRuns == 1..MaxLiveSessions
\* Mutant of Max: the second argument, whatever the first.
MaxSecond(a, b) == b

\* Math.max
Max(a, b) == IF a >= b THEN a ELSE b

\* LiveServerMessage: serverContent with the audio of modelTurn.parts[0] (its
\* duration once decoded, 0: none), inputTranscription.text,
\* outputTranscription.text, turnComplete and interrupted.
serverContent(audio, input, output, turnComplete, interrupted) ==
  [audio |-> audio, inputTranscription |-> input, outputTranscription |-> output,
   turnComplete |-> turnComplete, interrupted |-> interrupted]
\* The messages of the playback path: an audio frame of either duration, the
\* interruption signal.
AudioMessages ==
  { serverContent(1, FALSE, FALSE, FALSE, FALSE),
    serverContent(2, FALSE, FALSE, FALSE, FALSE),
    serverContent(0, FALSE, FALSE, FALSE, TRUE) }
\* The messages of the transcription path: a delta of either speaker, the
\* turn-complete signal.
TranscriptMessages ==
  { serverContent(0, TRUE, FALSE, FALSE, FALSE),
    serverContent(0, FALSE, TRUE, FALSE, FALSE),
    serverContent(0, FALSE, FALSE, TRUE, FALSE) }

LSInit ==
  /\ lsMounted = FALSE
  /\ lsHistoryAtMount = <<>>
  /\ lsIsActive = FALSE
  /\ lsStarted = 0
  /\ lsConn = [s \in LiveRuns |-> "none"]
  /\ lsDecoding = <<>>
  /\ audioContextRef = NoContext
  /\ currentTime = 0
  /\ nextStartTimeRef = 0
  /\ sourcesRef = {}
  /\ startTimeRef = 0
  /\ currentTranscriptRef = <<>>
  /\ userTextBuffer = <<>>
  /\ modelTextBuffer = <<>>
  /\ inputContexts = [s \in LiveRuns |-> "none"]
  /\ realtimeInput = NoInput

\* LiveSession mounts: fresh state and refs; the unmount effect closes over
\* the stopSession, and so the saveRecord and liveSessions, of this render.
lsMount ==
  /\ lsMounted' = TRUE
  /\ lsHistoryAtMount' = liveSessions
  /\ UNCHANGED <<liveSessions, lsRefs>>

\* handleSaveLiveSession of the render whose liveSessions is `seen`.
handleSaveLiveSession(seen, record) ==
  /\ liveSessions' = Append(seen, record)
  /\ localStorage' = setItem(localStorage, "mirror_ai_live_sessions", Append(seen, record))

\* stopSession: inputContextRef.current.close().
closeInputContext ==
  inputContexts' = IF inputContextRef # NoContext
                   THEN [inputContexts EXCEPT ![inputContextRef] = "closed"]
                   ELSE inputContexts

\* stopSession but for the input context, its saveRecord being the one of the
\* render that saw `seen`.
stopSession(seen) ==
  /\ lsIsActive' = FALSE
  /\ sourcesRef' = {}
  /\ audioContextRef' = NoContext
  /\ IF Len(currentTranscriptRef) > 0
     THEN /\ now < MaxLiveClock
          /\ now' = now + 1
          /\ handleSaveLiveSession(seen,
               [id |-> DateNow(now + 1), timestamp |-> startTimeRef,
                dateStr |-> toLocaleString(startTimeRef),
                durationSeconds |-> DateNow(now + 1) - startTimeRef,
                transcript |-> currentTranscriptRef])
     ELSE UNCHANGED <<now, liveSessions, localStorage>>
  /\ currentTranscriptRef' = <<>>
  /\ userTextBuffer' = <<>>
  /\ modelTextBuffer' = <<>>

\* LiveSession unmounts: the effect cleanup runs the stopSession of the mount
\* render; the instance, its refs and what its connections do to them are gone.
lsUnmount ==
  /\ stopSession(lsHistoryAtMount)
  /\ lsMounted' = FALSE
  /\ lsHistoryAtMount' = <<>>
  /\ lsStarted' = 0
  /\ lsConn' = [s \in LiveRuns |-> "none"]
  /\ lsDecoding' = <<>>
  /\ currentTime' = 0
  /\ nextStartTimeRef' = 0
  /\ startTimeRef' = 0
  /\ inputContexts' = [s \in LiveRuns |-> "none"]
  /\ realtimeInput' = NoInput

\* The button while inactive: startSession up to `await getUserMedia`; the
\* connection it asks for next is "connecting" from here on.
LS_StartSession ==
  /\ lsMounted
  /\ ~lsIsActive
  /\ lsDecoding = <<>>
  /\ lsStarted < MaxLiveSessions
  /\ now < MaxLiveClock
  /\ now' = now + 1
  /\ lsIsActive' = TRUE
  /\ currentTranscriptRef' = <<>>
  /\ startTimeRef' = DateNow(now + 1)
  /\ lsStarted' = lsStarted + 1
  /\ audioContextRef' = lsStarted + 1
  /\ currentTime' = 0
  /\ nextStartTimeRef' = 0
  /\ lsConn' = [lsConn EXCEPT ![lsStarted + 1] = "connecting"]
  /\ inputContexts' = [inputContexts EXCEPT ![lsStarted + 1] = "running"]
  /\ UNCHANGED <<currentView, localStorage, promptSessions, liveSessions, lsMounted,
                 lsHistoryAtMount, lsDecoding, sourcesRef, userTextBuffer, modelTextBuffer,
                 realtimeInput>>

\* startSession's catch, getUserMedia having rejected.
LS_MediaDenied ==
  /\ UNCHANGED captureVars
  /\ lsDecoding = <<>>
  /\ \E s \in LiveRuns :
       /\ lsConn[s] = "connecting"
       /\ lsConn' = [lsConn EXCEPT ![s] = "closed"]
  /\ lsIsActive' = FALSE
  /\ UNCHANGED <<appVars, liveSessions, lsMounted, lsHistoryAtMount, lsStarted,
                 lsDecoding, audioContextRef, currentTime, nextStartTimeRef, sourcesRef,
                 startTimeRef, currentTranscriptRef, userTextBuffer, modelTextBuffer>>

\* getUserMedia resolved, ai.live.connect, onopen: the script processor is
\* connected, and captures unless the input context was closed meanwhile.
LS_OnOpen ==
  /\ lsDecoding = <<>>
  /\ \E s \in LiveRuns :
       /\ lsConn[s] = "connecting"
       /\ lsConn' = [lsConn EXCEPT ![s] = "open"]
       /\ inputContexts' = IF inputContexts[s] = "running"
                           THEN [inputContexts EXCEPT ![s] = "capturing"]
                           ELSE inputContexts
  /\ realtimeInput' = realtimeInput
  /\ UNCHANGED <<appVars, liveSessions, lsMounted, lsHistoryAtMount, lsIsActive, lsStarted,
                 lsDecoding, audioContextRef, currentTime, nextStartTimeRef, sourcesRef,
                 startTimeRef, currentTranscriptRef, userTextBuffer, modelTextBuffer>>

\* onclose
LS_OnClose ==
  /\ UNCHANGED captureVars
  /\ lsDecoding = <<>>
  /\ \E s \in LiveRuns :
       /\ lsConn[s] \in {"connecting", "open"}
       /\ lsConn' = [lsConn EXCEPT ![s] = "closed"]
  /\ lsIsActive' = FALSE
  /\ UNCHANGED <<appVars, liveSessions, lsMounted, lsHistoryAtMount, lsStarted,
                 lsDecoding, audioContextRef, currentTime, nextStartTimeRef, sourcesRef,
                 startTimeRef, currentTranscriptRef, userTextBuffer, modelTextBuffer>>

\* onerror; the connection stays as it was until its onclose.
LS_OnError ==
  /\ UNCHANGED captureVars
  /\ lsDecoding = <<>>
  /\ \E s \in LiveRuns : lsConn[s] \in {"connecting", "open"}
  /\ lsIsActive
  /\ lsIsActive' = FALSE
  /\ UNCHANGED <<appVars, liveSessions, lsMounted, lsHistoryAtMount, lsStarted, lsConn,
                 lsDecoding, audioContextRef, currentTime, nextStartTimeRef, sourcesRef,
                 startTimeRef, currentTranscriptRef, userTextBuffer, modelTextBuffer>>

\* Mutant of handleTranscription: a delta is put in front of its buffer.
handleTranscriptionPrepend(msg, s) ==
  LET user == IF msg.inputTranscription THEN <<s>> \o userTextBuffer ELSE userTextBuffer
      model == IF msg.outputTranscription THEN <<s>> \o modelTextBuffer
                                          ELSE modelTextBuffer
      entry(role, text) == IF text # <<>> THEN <<[role |-> role, text |-> text]>> ELSE <<>>
  IN
  IF msg.turnComplete
  THEN /\ currentTranscriptRef' =
            currentTranscriptRef \o entry("user", user) \o entry("model", model)
       /\ userTextBuffer' = <<>>
       /\ modelTextBuffer' = <<>>
  ELSE /\ currentTranscriptRef' = currentTranscriptRef
       /\ userTextBuffer' = user
       /\ modelTextBuffer' = model

\* onmessage, "Handle Text Transcription for History": a message of connection s.
handleTranscription(msg, s) ==
  LET user == IF msg.inputTranscription THEN Append(userTextBuffer, s) ELSE userTextBuffer
      model == IF msg.outputTranscription THEN Append(modelTextBuffer, s)
                                          ELSE modelTextBuffer
      entry(role, text) == IF text # <<>> THEN <<[role |-> role, text |-> text]>> ELSE <<>>
  IN
  IF msg.turnComplete
  THEN /\ currentTranscriptRef' =
            currentTranscriptRef \o entry("user", user) \o entry("model", model)
       /\ userTextBuffer' = <<>>
       /\ modelTextBuffer' = <<>>
  ELSE /\ currentTranscriptRef' = currentTranscriptRef
       /\ userTextBuffer' = user
       /\ modelTextBuffer' = model

\* onmessage, `if (msg.serverContent?.interrupted)`, the refs holding `sources`
\* and `next` when it is reached.
handleInterrupted(msg, sources, next) ==
  IF msg.interrupted
  THEN /\ sourcesRef' = {}
       /\ nextStartTimeRef' = 0
  ELSE /\ sourcesRef' = sources
       /\ nextStartTimeRef' = next

\* The number of deltas in the texts of a transcript.
RECURSIVE deltasIn(_)
deltasIn(transcript) ==
  IF transcript = <<>> THEN 0
  ELSE Len(Head(transcript).text) + deltasIn(Tail(transcript))

\* The size guards of an incoming message.
lsAccepts(msg) ==
  /\ msg.audio # 0 => Cardinality(sourcesRef) + Len(lsDecoding) < MaxSources
  /\ (msg.inputTranscription \/ msg.outputTranscription)
     => Len(userTextBuffer) + Len(modelTextBuffer) + deltasIn(currentTranscriptRef)
          < MaxText
  /\ msg.turnComplete => Len(currentTranscriptRef) < MaxEntries

\* onmessage of connection s for a message of `messages`: with audio and an
\* output context, up to
\* `await decodeAudioData`; otherwise the whole handler.  The SDK calls it
\* from a promise continuation and does not await it, so the next message can
\* be handled while this one waits.
LS_OnMessage(messages) ==
  /\ UNCHANGED captureVars
  /\ \E s \in LiveRuns, msg \in messages :
       /\ lsConn[s] = "open"
       /\ lsAccepts(msg)
       /\ IF msg.audio # 0 /\ audioContextRef # NoContext
          THEN /\ nextStartTimeRef' = Max(nextStartTimeRef, currentTime)
               /\ lsDecoding' = Append(lsDecoding,
                    [session |-> s, msg |-> msg, ctx |-> audioContextRef])
               /\ UNCHANGED <<sourcesRef, currentTranscriptRef, userTextBuffer,
                              modelTextBuffer>>
          ELSE /\ handleTranscription(msg, s)
               /\ handleInterrupted(msg, sourcesRef, nextStartTimeRef)
               /\ lsDecoding' = lsDecoding
  /\ UNCHANGED <<appVars, liveSessions, lsMounted, lsHistoryAtMount, lsIsActive, lsStarted,
                 lsConn, audioContextRef, currentTime, startTimeRef>>

\* onmessage after `await decodeAudioData`: the source is created, connected to
\* the outputNode of the handler's own startSession run (connect throws when
\* that node belongs to another context, which ends the handler), started and
\* added; then the transcription and the interruption are handled.
LS_Decoded ==
  /\ UNCHANGED captureVars
  /\ lsDecoding # <<>>
  /\ LET p == Head(lsDecoding)
         source == [ctx |-> p.ctx, when |-> nextStartTimeRef, at |-> currentTime,
                    duration |-> p.msg.audio]
     IN
     IF p.ctx # p.session
     THEN UNCHANGED <<nextStartTimeRef, sourcesRef, currentTranscriptRef, userTextBuffer,
                      modelTextBuffer>>
     ELSE /\ handleTranscription(p.msg, p.session)
          /\ handleInterrupted(p.msg, sourcesRef \cup {source},
                               nextStartTimeRef + p.msg.audio)
  /\ lsDecoding' = Tail(lsDecoding)
  /\ UNCHANGED <<appVars, liveSessions, lsMounted, lsHistoryAtMount, lsIsActive, lsStarted,
                 lsConn, audioContextRef, currentTime, startTimeRef>>

\* onaudioprocess of the script processor of run s: while activeRef is set the
\* buffer is encoded (createPcmBlob) and handed to the session of run s.
LS_OnAudioProcess ==
  /\ lsDecoding = <<>>
  /\ \E s \in LiveRuns :
       /\ inputContexts[s] = "capturing"
       /\ lsIsActive
       /\ realtimeInput' = [run |-> s, connection |-> lsConn[s], started |-> lsStarted]
  /\ UNCHANGED <<appVars, liveSessions, lsMounted, lsHistoryAtMount, lsIsActive, lsStarted,
                 lsConn, lsDecoding, audioContextRef, currentTime, nextStartTimeRef,
                 sourcesRef, startTimeRef, currentTranscriptRef, userTextBuffer,
                 modelTextBuffer, inputContexts>>

\* The moment a source started with start(when) at time `at` begins to play.
begins(source) == Max(source.when, source.at)

\* The 'ended' event of a source that played to its end.
LS_SourceEnded ==
  /\ UNCHANGED captureVars
  /\ lsDecoding = <<>>
  /\ \E source \in sourcesRef :
       /\ source.ctx = audioContextRef
       /\ currentTime >= begins(source) + source.duration
       /\ sourcesRef' = sourcesRef \ {source}
  /\ UNCHANGED <<appVars, liveSessions, lsMounted, lsHistoryAtMount, lsIsActive, lsStarted,
                 lsConn, lsDecoding, audioContextRef, currentTime, nextStartTimeRef,
                 startTimeRef, currentTranscriptRef, userTextBuffer, modelTextBuffer>>

\* The output context renders: its currentTime advances.
LS_Tick ==
  /\ UNCHANGED captureVars
  /\ lsDecoding = <<>>
  /\ audioContextRef # NoContext
  /\ currentTime < MaxTime
  /\ currentTime' = currentTime + 1
  /\ UNCHANGED <<appVars, liveSessions, lsMounted, lsHistoryAtMount, lsIsActive, lsStarted,
                 lsConn, lsDecoding, audioContextRef, nextStartTimeRef, sourcesRef,
                 startTimeRef, currentTranscriptRef, userTextBuffer, modelTextBuffer>>

\* The button while active: stopSession of the current render.
LS_StopSession ==
  /\ lsMounted
  /\ lsIsActive
  /\ lsDecoding = <<>>
  /\ stopSession(liveSessions)
  /\ closeInputContext
  /\ realtimeInput' = realtimeInput
  /\ UNCHANGED <<currentView, promptSessions, lsMounted, lsHistoryAtMount, lsStarted,
                 lsConn, lsDecoding, currentTime, nextStartTimeRef, startTimeRef>>

\* Sidebar while the live session view is shown: setCurrentView(v), v a view
\* whose component writes nothing when it mounts.
LeaveVoice(v) ==
  /\ currentView = "VOICE"
  /\ lsMounted
  /\ lsDecoding = <<>>
  /\ v \notin {"VOICE", "PROMPT_ENGINEER", "CHAT"}
  /\ currentView' = v
  /\ lsUnmount
  /\ IF v = "DECISION_SIM" THEN dsMount
                           ELSE UNCHANGED <<dsMounted, dsIsSimulating, dsUseExperts, dsInflight>>
  /\ UNCHANGED <<promptSessions, peVars, rootVars, chatVars, decisions, todoVars, sanVars, envVars>>
  /\ Quiet

(***************************************************************************)
(* ------------------  VIEW CHANGES AND PAGE LOAD (App.tsx)  ------------- *)
(***************************************************************************)
getItem(store, key) == store[key]

\* App's load effect for one key: JSON.parse of the stored blob, else the useState default.
Loaded(store, key, default) ==
  IF getItem(store, key) # <<>> THEN JSONparse(getItem(store, key)) ELSE default

\* The application right after the page was loaded with `store` in localStorage.
AppLoaded(store) ==
  /\ currentView = "DASHBOARD"
  /\ localStorage = store
  /\ promptSessions = Loaded(store, "mirror_ai_prompt_sessions", <<>>)
  /\ chatSessions = Loaded(store, "mirror_ai_chat_sessions", <<>>)
  /\ profile = Loaded(store, "mirror_ai_profile", INITIAL_PROFILE)
  /\ decisions = Loaded(store, "mirror_ai_decisions", <<>>)
  /\ liveSessions = Loaded(store, "mirror_ai_live_sessions", <<>>)
  /\ todos = Loaded(store, "mirror_ai_todos", <<>>)
  /\ alertShown = NoAlert
  /\ quotaExceeded = FALSE

EmptyStore == [k \in StorageKeys |-> <<>>]

\* A chat session left in the store by earlier use: the welcome message, then
\* StoredLen messages, user and model in turn.
StoredMessages ==
  <<chatWelcomeMsg>> \o
  [i \in 1..StoredLen |->
     [id |-> i - StoredLen - 1,
      role |-> IF i % 2 = 1 THEN MessageRole.USER ELSE MessageRole.MODEL,
      content |-> IF i % 2 = 1 THEN "hi" ELSE "reply",
      fileData |-> NoFile]]
StoredSession ==
  [id |-> 0 - StoredLen - 1, title |-> chatTitle(StoredMessages),
   timestamp |-> 0 - 1, dateStr |-> 0 - 1, messages |-> StoredMessages]
UsedStore == setItem(EmptyStore, "mirror_ai_chat_sessions", <<StoredSession>>)

\* First load, nothing stored.
Init ==
  /\ RetryInit /\ PEInit /\ ChatInit /\ DSInit /\ LSInit /\ ExInit /\ SanIdle
  /\ now = 0
  /\ AppLoaded(EmptyStore)

\* Load with nothing stored, or with a long chat session stored.
InitChat ==
  /\ RetryInit /\ PEInit /\ ChatInit /\ DSInit /\ LSInit /\ ExInit /\ SanIdle
  /\ now = 0
  /\ \E store \in {EmptyStore, UsedStore} : AppLoaded(store)

peUnmountIfMounted == IF peMounted THEN peUnmount ELSE UNCHANGED peVars
chatUnmountIfMounted == IF chatMounted THEN chatUnmount ELSE UNCHANGED chatVars
dsUnmountIfMounted ==
  IF dsMounted THEN dsUnmount
               ELSE UNCHANGED <<dsMounted, dsIsSimulating, dsUseExperts, dsInflight>>

\* Sidebar: setCurrentView(view).  The component of the view left unmounts, the
\* component of the view entered mounts and runs its mount effect.
SetView(v) ==
  /\ v # currentView
  /\ ~lsMounted
  /\ IF v = "VOICE" THEN lsMount ELSE UNCHANGED liveVars
  /\ currentView' = v
  /\ profile' = profile
  /\ CASE v = "PROMPT_ENGINEER" ->
            peMount /\ chatUnmountIfMounted /\ chatSessions' = chatSessions
       [] v = "CHAT" ->
            chatMount /\ peUnmountIfMounted /\ promptSessions' = promptSessions
       [] OTHER ->
            /\ peUnmountIfMounted
            /\ chatUnmountIfMounted
            /\ UNCHANGED <<now, localStorage, promptSessions, chatSessions>>
  /\ IF v = "DECISION_SIM" THEN dsMount ELSE dsUnmountIfMounted
  /\ decisions' = decisions
  /\ exUnmountIfMounted
  /\ UNCHANGED <<sanVars, envVars>>
  /\ Quiet

\* handleAnalyzeTodo from the todo panel (any view) or the dashboard, and the
\* [initialPrompt] effect of PromptEngineer it triggers, mounted already or
\* not: startNewSession(initialPrompt), then onPromptConsumed resets the prompt.
AnalyzeTodo ==
  /\ ~lsMounted
  /\ UNCHANGED liveVars
  /\ \E prompt \in AnalysisPrompts : startNewSession(prompt, promptSessions)
  /\ currentView' = "PROMPT_ENGINEER"
  /\ peMounted' = TRUE
  /\ chatUnmountIfMounted
  /\ exUnmountIfMounted
  /\ dsUnmountIfMounted
  /\ UNCHANGED <<rootVars, decisions, sanVars, envVars>>
  /\ Quiet

\* The page is loaded again: every component state and every pending
\* continuation is gone, App's load effect reads the stores back.
Reload ==
  /\ currentView' = "DASHBOARD"
  /\ promptSessions' = Loaded(localStorage, "mirror_ai_prompt_sessions", <<>>)
  /\ chatSessions' = Loaded(localStorage, "mirror_ai_chat_sessions", <<>>)
  /\ profile' = Loaded(localStorage, "mirror_ai_profile", INITIAL_PROFILE)
  /\ peMounted' = FALSE
  /\ peCurrentSessionId' = NoSession
  /\ peMessages' = <<>>
  /\ peIsLoading' = FALSE
  /\ peShowTrash' = FALSE
  /\ peInflight' = {}
  /\ chatMounted' = FALSE
  /\ chatCurrentSessionId' = NoSession
  /\ chatMessages' = <<>>
  /\ chatIsLoading' = FALSE
  /\ chatIsAnalyzing' = FALSE
  /\ chatAttachment' = NoFile
  /\ chatInflight' = {}
  /\ decisions' = Loaded(localStorage, "mirror_ai_decisions", <<>>)
  /\ dsMounted' = FALSE
  /\ dsIsSimulating' = FALSE
  /\ dsUseExperts' = FALSE
  /\ dsInflight' = {}
  /\ alertShown' = NoAlert
  /\ todos' = Loaded(localStorage, "mirror_ai_todos", <<>>)
  /\ chatIsExtracting' = FALSE
  /\ exInflight' = {}
  /\ liveSessions' = Loaded(localStorage, "mirror_ai_live_sessions", <<>>)
  /\ lsMounted' = FALSE
  /\ lsHistoryAtMount' = <<>>
  /\ lsIsActive' = FALSE
  /\ lsStarted' = 0
  /\ lsConn' = [s \in LiveRuns |-> "none"]
  /\ lsDecoding' = <<>>
  /\ audioContextRef' = NoContext
  /\ currentTime' = 0
  /\ nextStartTimeRef' = 0
  /\ sourcesRef' = {}
  /\ startTimeRef' = 0
  /\ currentTranscriptRef' = <<>>
  /\ userTextBuffer' = <<>>
  /\ modelTextBuffer' = <<>>
  /\ inputContexts' = [s \in LiveRuns |-> "none"]
  /\ realtimeInput' = NoInput
  /\ UNCHANGED <<now, localStorage, sanVars, envVars>>

\* What the prompt-engineering engine and the session store leave alone.
PromptFrame == UNCHANGED <<retryVars, rootVars, chatVars, decisionVars, liveVars, todoVars, sanVars, envVars>>

PromptNext ==
  \/ \E v \in {"DASHBOARD", "PROMPT_ENGINEER"} : SetView(v) /\ UNCHANGED retryVars
  \/ Reload /\ UNCHANGED retryVars
  \/ AnalyzeTodo /\ UNCHANGED retryVars
  \/ PE_NewSession /\ PromptFrame /\ Quiet
  \/ PE_HandleSend /\ PromptFrame /\ Quiet
  \/ PE_ReplyArrives /\ PromptFrame /\ Quiet
  \/ PE_ReplyFails /\ PromptFrame /\ Quiet
  \/ PE_LoadSession /\ PromptFrame /\ Quiet
  \/ PE_SetShowTrash /\ PromptFrame /\ Quiet
  \/ PE_HandleDelete /\ PromptFrame /\ Quiet
  \/ PE_HandleRestore /\ PromptFrame /\ Quiet
  \/ PE_RestoreCurrent /\ PromptFrame /\ Quiet
  \/ PE_EmptyRecycleBin /\ PromptFrame /\ Quiet

vars ==
  <<retryVars, appVars, alertShown, peVars, rootVars, chatVars, decisionVars, liveVars, todoVars, sanVars, envVars>>

\* What the gateway leaves alone.
RetryFrame ==
  UNCHANGED <<appVars, peVars, rootVars, chatVars, decisionVars, liveVars, todoVars, sanVars, envVars>>

RetrySpecNext ==
  \/ RetryOperationCall /\ RetryFrame /\ Quiet
  \/ SendChatMessageCall /\ RetryFrame /\ Quiet
  \/ AnalyzeProfileCall /\ RetryFrame /\ Quiet
  \/ OperationResolves /\ RetryFrame /\ Quiet
  \/ OperationRejects /\ RetryFrame /\ Quiet
  \/ BackoffElapsed /\ RetryFrame /\ Quiet
  \/ FallbackResolves /\ RetryFrame /\ Quiet
  \/ FallbackRejects /\ RetryFrame /\ Quiet

SpecRetry == Init /\ [][RetrySpecNext]_vars

SpecPrompt == Init /\ [][PromptNext]_vars

\* What the chat engine leaves alone.
ChatFrame == UNCHANGED <<retryVars, peVars, decisionVars, liveVars, todoVars, sanVars, envVars>>

ChatNext ==
  \/ \E v \in {"DASHBOARD", "CHAT"} : SetView(v) /\ UNCHANGED retryVars
  \/ Reload /\ UNCHANGED retryVars
  \/ Chat_InitNewSession /\ ChatFrame /\ Quiet
  \/ Chat_LoadSession /\ ChatFrame /\ Quiet
  \/ Chat_SetAttachment /\ ChatFrame /\ Quiet
  \/ Chat_HandleSend /\ ChatFrame /\ Quiet
  \/ Chat_HandleRegenerate /\ ChatFrame /\ Quiet
  \/ Chat_ReplyArrives /\ ChatFrame /\ Quiet
  \/ Chat_ReplyFails /\ ChatFrame /\ Quiet
  \/ Chat_RunAnalysis /\ ChatFrame /\ Quiet
  \/ Chat_AnalysisArrives /\ ChatFrame /\ Quiet
  \/ Chat_AnalysisFails /\ ChatFrame

SpecChat == InitChat /\ [][ChatNext]_vars

\* What the dashboard's profile handlers leave alone.
ProfileFrame == UNCHANGED <<retryVars, peVars, chatVars, decisionVars, liveVars, todoVars, sanVars, envVars>>

ProfileNext ==
  \/ Reload /\ UNCHANGED retryVars
  \/ Dashboard_ImportProfile /\ ProfileFrame
  \/ Dashboard_AddItem /\ ProfileFrame /\ Quiet
  \/ Dashboard_RemoveItem /\ ProfileFrame /\ Quiet

SpecProfile == Init /\ [][ProfileNext]_vars

\* What the decision simulator leaves alone.
DecisionFrame == UNCHANGED <<retryVars, peVars, chatVars, liveVars, todoVars, sanVars, envVars>>

DecisionNext ==
  \/ \E v \in {"DASHBOARD", "DECISION_SIM"} : SetView(v) /\ UNCHANGED retryVars
  \/ Reload /\ UNCHANGED retryVars
  \/ Dashboard_ImportProfile /\ ProfileFrame
  \/ Dashboard_AddItem /\ ProfileFrame /\ Quiet
  \/ Dashboard_RemoveItem /\ ProfileFrame /\ Quiet
  \/ Decision_HandleSimulate /\ DecisionFrame /\ Quiet
  \/ Decision_Resolves(PlainCompletions) /\ DecisionFrame /\ Quiet
  \/ Decision_Fails /\ DecisionFrame

SpecDecision == Init /\ [][DecisionNext]_vars

\* The decision simulator with its expert switch, every answer the gateway
\* can give to the expert request included.
ExpertNext ==
  \/ \E v \in {"DASHBOARD", "DECISION_SIM"} : SetView(v) /\ UNCHANGED retryVars
  \/ Dashboard_AddItem /\ ProfileFrame /\ Quiet
  \/ Decision_SetUseExperts /\ DecisionFrame /\ Quiet
  \/ Decision_HandleSimulate /\ DecisionFrame /\ Quiet
  \/ Decision_Resolves(PlainCompletions \cup ExpertCompletions) /\ DecisionFrame /\ Quiet
  \/ Decision_Fails /\ DecisionFrame

SpecExpert == Init /\ [][ExpertNext]_vars

\* What the task extraction leaves alone.
ExtractFrame == UNCHANGED <<retryVars, peVars, chatVars, decisionVars, liveVars, sanVars, envVars>>

\* Task extraction in the chat view, every answer the gateway can give to
\* the extractor's request included.
ExtractNext ==
  \/ \E v \in {"DASHBOARD", "CHAT"} : SetView(v) /\ UNCHANGED retryVars
  \/ Reload /\ UNCHANGED retryVars
  \/ Chat_HandleExtractTasks /\ ExtractFrame
  \/ Chat_ExtractionResolves(TaskCompletions) /\ ExtractFrame
  \/ Chat_ExtractionFails /\ ExtractFrame

SpecExtract == InitChat /\ [][ExtractNext]_vars

\* Task extraction next to the todo panel.
TodoNext ==
  \/ \E v \in {"DASHBOARD", "CHAT"} : SetView(v) /\ UNCHANGED retryVars
  \/ App_HandleAddTodo /\ ExtractFrame
  \/ App_HandleDeleteTodo /\ ExtractFrame
  \/ Chat_HandleExtractTasks /\ ExtractFrame
  \/ Chat_ExtractionResolves(TaskCompletions) /\ ExtractFrame
  \/ Chat_ExtractionFails /\ ExtractFrame

SpecTodos == InitChat /\ [][TodoNext]_vars

\* The store fills up, or room is made in it, outside the application.
Storage_Fills ==
  /\ quotaExceeded' = ~quotaExceeded
  /\ UNCHANGED <<retryVars, appVars, alertShown, peVars, rootVars, chatVars, decisionVars,
                 liveVars, todoVars, sanVars>>

\* The dashboard on a store that may be full.
QuotaNext ==
  \/ Reload /\ UNCHANGED retryVars
  \/ Storage_Fills
  \/ Dashboard_ImportProfile /\ ProfileFrame
  \/ Dashboard_AddItem /\ ProfileFrame /\ Quiet
  \/ Dashboard_RemoveItem /\ ProfileFrame /\ Quiet

SpecQuota == Init /\ [][QuotaNext]_vars

\* Two short chat sessions in the store, the second one the more recent.
ShortSession(id) ==
  [id |-> id, title |-> [of |-> "hi", chars |-> 2, dots |-> FALSE],
   timestamp |-> id, dateStr |-> id,
   messages |-> <<chatWelcomeMsg,
                  [id |-> id + 1, role |-> MessageRole.USER, content |-> "hi",
                   fileData |-> NoFile],
                  [id |-> id + 2, role |-> MessageRole.MODEL, content |-> "reply",
                   fileData |-> NoFile]>>]
TwoSessionStore ==
  setItem(EmptyStore, "mirror_ai_chat_sessions", <<ShortSession(0 - 20), ShortSession(0 - 10)>>)

InitTwoSessions ==
  /\ RetryInit /\ PEInit /\ ChatInit /\ DSInit /\ LSInit /\ ExInit /\ SanIdle
  /\ now = 0
  /\ AppLoaded(TwoSessionStore)

\* Turns of the chat view taken while the user moves between sessions.
IsolationNext ==
  \/ \E v \in {"DASHBOARD", "CHAT"} : SetView(v) /\ UNCHANGED retryVars
  \/ Chat_InitNewSession /\ ChatFrame /\ Quiet
  \/ Chat_LoadSession /\ ChatFrame /\ Quiet
  \/ Chat_HandleSendWithin(MaxTurnClock) /\ ChatFrame /\ Quiet
  \/ Chat_ReplyArrivesWithin(MaxTurnClock) /\ ChatFrame /\ Quiet
  \/ Chat_ReplyFailsWithin(MaxTurnClock) /\ ChatFrame /\ Quiet

SpecIsolation == InitTwoSessions /\ [][IsolationNext]_vars

\* The chat turn followed through its gateway call: handleSend awaits
\* sendChatMessage, which awaits retryOperation.  One gateway call is followed
\* at a time; a dispatch leaves room on the clock for the reading its
\* continuation makes.
ReplyLimit == MaxChatClock

\* The awaited retryOperation call has settled and handed its outcome over.
retrySettled ==
  /\ rPc' = "idle"
  /\ rCall' = [caller |-> "none", options |-> NoOptions, retries |-> 0, delay |-> 0,
               primary |-> NoModel, fallback |-> NoModel]
  /\ rRetries' = 0
  /\ rDelay' = 0
  /\ rTrace' = <<>>
  /\ rResult' = [kind |-> "none", error |-> NoError, by |-> NoModel]

TurnFrame == UNCHANGED <<peVars, decisionVars, liveVars, todoVars, sanVars, envVars>>

\* handleSend up to its await, sendChatMessage entered.
Turn_Send ==
  Chat_HandleSendWithin(ReplyLimit - 1) /\ SendChatMessageCall /\ TurnFrame /\ Quiet

\* handleRegenerate, and sendChatMessage entered if its handleSend dispatched.
Turn_Regenerate ==
  /\ now < ReplyLimit
  /\ rPc = "idle"
  /\ Chat_HandleRegenerate
  /\ IF chatInflight' # chatInflight THEN SendChatMessageCall ELSE UNCHANGED retryVars
  /\ TurnFrame /\ Quiet

\* One attempt of the primary operation terminates.
Turn_Attempt == (OperationResolves \/ OperationRejects) /\ RetryFrame /\ Quiet

\* The backoff timer fires.
Turn_Backoff == BackoffElapsed /\ RetryFrame /\ Quiet

\* The fallback attempt terminates.
Turn_Fallback == (FallbackResolves \/ FallbackRejects) /\ RetryFrame /\ Quiet

\* sendChatMessage has returned: the try block of handleSend goes on.
Turn_ReplyArrives ==
  /\ rPc = "returned"
  /\ Chat_ReplyArrivesWithin(ReplyLimit)
  /\ retrySettled
  /\ TurnFrame /\ Quiet

\* sendChatMessage has thrown: catch, then finally.
Turn_ReplyFails ==
  /\ rPc = "thrown"
  /\ Chat_ReplyFailsWithin(ReplyLimit)
  /\ retrySettled
  /\ TurnFrame /\ Quiet

TurnNext ==
  \/ \E v \in {"DASHBOARD", "CHAT"} : SetView(v) /\ UNCHANGED retryVars
  \/ Turn_Send
  \/ Turn_Regenerate
  \/ OperationResolves /\ RetryFrame /\ Quiet
  \/ OperationRejects /\ RetryFrame /\ Quiet
  \/ BackoffElapsed /\ RetryFrame /\ Quiet
  \/ FallbackResolves /\ RetryFrame /\ Quiet
  \/ FallbackRejects /\ RetryFrame /\ Quiet
  \/ Turn_ReplyArrives
  \/ Turn_ReplyFails

\* The next step of the gateway call that is awaited; rPc enables one of the
\* five at a time.
Turn_Progress ==
  Turn_Attempt \/ Turn_Backoff \/ Turn_Fallback \/ Turn_ReplyArrives \/ Turn_ReplyFails

\* Every attempt terminates, the backoff timer fires, and a settled promise
\* runs its continuation.
TurnFairness == WF_vars(Turn_Progress)

SpecTurn == InitTwoSessions /\ [][TurnNext]_vars /\ TurnFairness

\* The sanitize step applied to every object of ImportObjects, then to its
\* own result.
InitSanitize ==
  /\ RetryInit /\ PEInit /\ ChatInit /\ DSInit /\ LSInit /\ ExInit
  /\ now = 0
  /\ AppLoaded(EmptyStore)
  /\ sanJson \in ImportObjects
  /\ sanOnce = NotBuilt
  /\ sanTwice = NotBuilt

SanitizeFrame ==
  UNCHANGED <<retryVars, currentView, localStorage, promptSessions, alertShown, peVars,
              rootVars, chatVars, decisionVars, liveVars, todoVars, envVars>>

SanitizeNext ==
  \/ Sanitize_File /\ SanitizeFrame
  \/ Sanitize_Sanitized /\ SanitizeFrame

SpecSanitize == InitSanitize /\ [][SanitizeNext]_vars

(***************************************************************************)
(* The live session: the voice view, its connections and its records.      *)
(***************************************************************************)
\* What the live session leaves alone.
LiveFrame ==
  UNCHANGED <<retryVars, peVars, rootVars, chatVars, decisionVars, todoVars, sanVars, envVars>>

\* Sessions, transcription and records.
LiveNext ==
  \/ \E v \in {"DASHBOARD", "VOICE"} : SetView(v) /\ UNCHANGED retryVars
  \/ LeaveVoice("DASHBOARD") /\ UNCHANGED retryVars
  \/ Reload /\ UNCHANGED retryVars
  \/ LS_StartSession /\ LiveFrame /\ Quiet
  \/ LS_MediaDenied /\ LiveFrame /\ Quiet
  \/ LS_OnOpen /\ LiveFrame /\ Quiet
  \/ LS_OnMessage(TranscriptMessages) /\ LiveFrame /\ Quiet
  \/ LS_OnClose /\ LiveFrame /\ Quiet
  \/ LS_OnError /\ LiveFrame /\ Quiet
  \/ LS_StopSession /\ LiveFrame /\ Quiet

SpecLive == Init /\ [][LiveNext]_vars

\* Sessions and playback.
PlaybackNext ==
  \/ \E v \in {"DASHBOARD", "VOICE"} : SetView(v) /\ UNCHANGED retryVars
  \/ LeaveVoice("DASHBOARD") /\ UNCHANGED retryVars
  \/ LS_StartSession /\ LiveFrame /\ Quiet
  \/ LS_OnOpen /\ LiveFrame /\ Quiet
  \/ LS_OnMessage(AudioMessages) /\ LiveFrame /\ Quiet
  \/ LS_Decoded /\ LiveFrame /\ Quiet
  \/ LS_SourceEnded /\ LiveFrame /\ Quiet
  \/ LS_Tick /\ LiveFrame /\ Quiet
  \/ LS_OnClose /\ LiveFrame /\ Quiet
  \/ LS_StopSession /\ LiveFrame /\ Quiet

SpecPlayback == Init /\ [][PlaybackNext]_vars

\* Sessions and capture.
CaptureNext ==
  \/ \E v \in {"DASHBOARD", "VOICE"} : SetView(v) /\ UNCHANGED retryVars
  \/ LeaveVoice("DASHBOARD") /\ UNCHANGED retryVars
  \/ LS_StartSession /\ LiveFrame /\ Quiet
  \/ LS_MediaDenied /\ LiveFrame /\ Quiet
  \/ LS_OnOpen /\ LiveFrame /\ Quiet
  \/ LS_OnAudioProcess /\ LiveFrame /\ Quiet
  \/ LS_OnClose /\ LiveFrame /\ Quiet
  \/ LS_OnError /\ LiveFrame /\ Quiet
  \/ LS_StopSession /\ LiveFrame /\ Quiet

SpecCapture == Init /\ [][CaptureNext]_vars

\* Sessions and transcription.
TranscriptNext ==
  \/ \E v \in {"DASHBOARD", "VOICE"} : SetView(v) /\ UNCHANGED retryVars
  \/ LS_StartSession /\ LiveFrame /\ Quiet
  \/ LS_OnOpen /\ LiveFrame /\ Quiet
  \/ LS_OnMessage(TranscriptMessages) /\ LiveFrame /\ Quiet
  \/ LS_OnError /\ LiveFrame /\ Quiet

SpecTranscript == Init /\ [][TranscriptNext]_vars

(***************************************************************************)
(* Helpers over the invocation trace.                                      *)
(***************************************************************************)
OpEvents == { i \in 1..Len(rTrace) : rTrace[i].who = "op" }
FbEvents == { i \in 1..Len(rTrace) : rTrace[i].who = "fb" }
Finished == rPc \in {"returned", "thrown"}
AllOpTransient ==
  \A i \in OpEvents : ~rTrace[i].ok /\ isUnavailable(rTrace[i].error)
(***************************************************************************)
(* C1 - Retry bound.  In a retryOperation(op, r, d, fb) call in which      *)
(* every invocation of op fails with a transient error, op is invoked at   *)
(* most r+1 times at any moment, and exactly r+1 times once the primary    *)
(* phase is over; then fb is invoked exactly once if it was supplied, and  *)
(* without fb the call throws the error of op's last invocation.           *)
(***************************************************************************)
C1_RetryBound ==
  (rCall.primary # NoModel /\ AllOpTransient) =>
    /\ Cardinality(OpEvents) <= rCall.retries + 1
    /\ (rPc = "fb" \/ Finished) =>
         /\ Cardinality(OpEvents) = rCall.retries + 1
         /\ IF rCall.fallback # NoModel
            THEN \/ rPc = "fb" /\ FbEvents = {}
                 \/ Finished /\ Cardinality(FbEvents) = 1
            ELSE /\ rPc = "thrown"
                 /\ FbEvents = {}
                 /\ rResult.kind = "error"
                 /\ rResult.error = rTrace[Len(rTrace)].error

\* sendChatMessage (r = 2) failed three times on the primary with transient
\* errors and then ran its fallback once.
C1_Witness ==
  /\ rCall.caller = "sendChatMessage"
  /\ AllOpTransient
  /\ Cardinality(OpEvents) = 3
  /\ Finished
  /\ Cardinality(FbEvents) = 1

(***************************************************************************)
(* C2 - A non-transient failure of the primary operation is raised to the  *)
(* caller at once: it is the last invocation of the call, the call has     *)
(* thrown that error, and the fallback was not invoked - whatever preceded *)
(* it and however many retries remain.                                     *)
(***************************************************************************)
C2_NonTransientPropagates ==
  \A i \in OpEvents :
    (~rTrace[i].ok /\ ~isUnavailable(rTrace[i].error)) =>
      /\ i = Len(rTrace)
      /\ rPc = "thrown"
      /\ rResult.kind = "error"
      /\ rResult.error = rTrace[i].error

(***************************************************************************)
(* C3 - Profile shape.  In every reachable state each of the six           *)
(* categories of the profile held by the application is a list, never      *)
(* null or undefined, whatever was loaded, imported, returned by a profile *)
(* analysis or edited.                                                     *)
(***************************************************************************)
C3_ProfileShape == \A k \in Categories : isArray(Get(profile, k))

(***************************************************************************)
(* C4 - Context window.  A chat turn sent from a log of more than 20       *)
(* non-system messages passes to the gateway exactly the 20 most recent    *)
(* non-system messages, in their order, and no system message, wherever    *)
(* the system messages sit in the log.                                     *)
(***************************************************************************)
C4_ContextWindow ==
  \A r \in chatInflight :
    LET nonSystem == SelectSeq(r.messages, NotSystem)
        recent == SliceLast(nonSystem, ContextLimit)
    IN
    (r.kind = "send" /\ Len(nonSystem) > ContextLimit) =>
      /\ Len(history(r)) = ContextLimit
      /\ \A i \in 1..Len(history(r)) :
           /\ history(r)[i].role # MessageRole.SYSTEM
           /\ i <= Len(recent) =>
                /\ history(r)[i].role = recent[i].role
                /\ history(r)[i].text = recent[i].content

(***************************************************************************)
(* C5 - Profile injection.  In the history of every chat turn the profile  *)
(* context is put before exactly one message, the first of the window, and *)
(* before no other message of that history.                                *)
(***************************************************************************)
C5_ProfileInjectedOnce ==
  \A r \in chatInflight :
    r.kind = "send" =>
      /\ Len(history(r)) >= 1
      /\ \A i \in 1..Len(history(r)) :
           history(r)[i].context = IF i = 1 THEN ProfileContext(r.profile) ELSE <<>>

\* A turn is in flight whose window is full and whose profile is the one a
\* profile analysis returned.
C5_Witness ==
  \E r \in chatInflight :
    /\ r.kind = "send"
    /\ Len(r.messages) > ContextLimit
    /\ Len(history(r)) >= 2
    /\ r.profile # INITIAL_PROFILE

(***************************************************************************)
(* C6 - No overlapping sends.  Each turn engine, the chat one and the      *)
(* prompt-engineering one, has at most one gateway chat dispatch of the    *)
(* mounted view in flight at any time, for sends typed by the user and for *)
(* a send started from an injected initial prompt.                         *)
(***************************************************************************)
C6_NoOverlappingSends ==
  /\ Cardinality({r \in peInflight : r.alive}) <= 1
  /\ Cardinality({r \in chatInflight : r.alive /\ r.kind = "send"}) <= 1

(***************************************************************************)
(* C7 - Regenerate.  A regenerate of a log whose last message is the       *)
(* model's drops that message and resends the user message before it: the  *)
(* log the resent turn works on (its history is cut from it, the reply is  *)
(* appended to it and the result is displayed and saved) ends with that    *)
(* user message, so the dropped message is neither in the outbound history *)
(* nor in the log after the reply.                                         *)
(***************************************************************************)
C7_RegenerateDropsModelMessage ==
  \A r \in chatInflight :
    (r.kind = "send" /\ r.retry) =>
      /\ r.messages[Len(r.messages)].role = MessageRole.USER
      /\ history(r)[Len(history(r))].role = MessageRole.USER

(***************************************************************************)
(* C8 - Purge is permanent.  Session ids are creation times, so a session  *)
(* that enters the store with an id that is not later than the clock was   *)
(* in the store before and has been purged from it.  After a soft delete   *)
(* and a confirmed purge no step (a send from a view that had the session  *)
(* open, the save of a reply that was in flight, a restore, a save) makes  *)
(* a session with the purged id appear in the store again.                 *)
(***************************************************************************)
C8_PurgeIsPermanent ==
  [][\A j \in 1..Len(promptSessions') :
       (\A i \in 1..Len(promptSessions) : promptSessions[i].id # promptSessions'[j].id)
         => promptSessions'[j].id > DateNow(now)]_vars

(***************************************************************************)
(* C9 - Soft-delete round trip.  A soft delete followed by a restore of    *)
(* the same session leaves the store as it was (same title, timestamp and  *)
(* messages, active again), and a step that changes the deletion flag of a *)
(* session changes nothing else of that session and nothing of any other   *)
(* session of the store.                                                   *)
(***************************************************************************)
C9_SoftDeleteRoundTrip ==
  /\ [](\A i \in 1..Len(promptSessions) :
          ~promptSessions[i].isDeleted =>
             setDeleted(setDeleted(promptSessions, promptSessions[i].id, TRUE),
                        promptSessions[i].id, FALSE) = promptSessions)
  /\ [][\A i \in 1..Len(promptSessions) :
          (\E j \in 1..Len(promptSessions') :
              /\ promptSessions'[j].id = promptSessions[i].id
              /\ promptSessions'[j].isDeleted # promptSessions[i].isDeleted)
          => /\ Len(promptSessions') >= Len(promptSessions)
             /\ \A k \in 1..Len(promptSessions) :
                  promptSessions'[k] =
                    IF k = i
                    THEN [promptSessions[k] EXCEPT !.isDeleted = ~promptSessions[k].isDeleted]
                    ELSE promptSessions[k]]_vars

\* The recycle bin is shown and the store holds an active session with a
\* model reply next to a deleted one: the state a restore from a bin of two
\* deleted sessions leaves.
C9_Witness ==
  /\ peShowTrash
  /\ \E i, k \in 1..Len(promptSessions) :
       /\ ~promptSessions[i].isDeleted
       /\ Len(promptSessions[i].messages) >= 3
       /\ promptSessions[k].isDeleted

(***************************************************************************)
(* C10 - Save is an upsert by id.  A save of a prompt-engineering session  *)
(* (handleSend saving the user message, processAIResponse saving the       *)
(* reply, each with isDeleted = false) whose id is in the store replaces   *)
(* the title, messages and timestamp of that entry in place and leaves its *)
(* deletion flag as it was; a save of an unknown id appends exactly one    *)
(* entry; no save changes another entry; and the store never holds two     *)
(* entries with the same id.                                               *)
(***************************************************************************)
C10_SaveIsUpsert ==
  /\ [](\A i, j \in 1..Len(promptSessions) :
          promptSessions[i].id = promptSessions[j].id => i = j)
  /\ [][(PE_HandleSend \/ PE_ReplyArrives) =>
          LET saved(e) == /\ e.timestamp = DateNow(now')
                          /\ e.title = peTitle(e.messages)
                          /\ e.messages[Len(e.messages)].id \in {DateNow(now'), DateNow(now') + 1}
          IN
          \/ /\ Len(promptSessions') = Len(promptSessions)
             /\ \E i \in 1..Len(promptSessions) :
                  /\ promptSessions'[i].id = promptSessions[i].id
                  /\ promptSessions'[i].isDeleted = promptSessions[i].isDeleted
                  /\ saved(promptSessions'[i])
                  /\ \A k \in 1..Len(promptSessions) :
                       k # i => promptSessions'[k] = promptSessions[k]
          \/ /\ Len(promptSessions') = Len(promptSessions) + 1
             /\ SubSeq(promptSessions', 1, Len(promptSessions)) = promptSessions
             /\ saved(promptSessions'[Len(promptSessions')])
             /\ \A i \in 1..Len(promptSessions) :
                  promptSessions[i].id # promptSessions'[Len(promptSessions')].id]_vars

\* The reply of a turn was saved into a session that sits in the recycle bin:
\* the entry holds the reply saved at the current time and is still deleted.
C10_Witness ==
  \E i \in 1..Len(promptSessions) :
    /\ promptSessions[i].isDeleted
    /\ promptSessions[i].timestamp = DateNow(now)
    /\ promptSessions[i].messages[Len(promptSessions[i].messages)].id = DateNow(now) + 1

(***************************************************************************)
(* C11 - A soft-deleted session is frozen.  While a prompt-engineering     *)
(* session is in the recycle bin its stored entry does not change: a send  *)
(* in it is refused and the reply of a turn dispatched before the deletion *)
(* is not saved into it; a session deleted before and after a step is the  *)
(* same before and after it.                                               *)
(***************************************************************************)
C11_DeletedSessionFrozen ==
  [][\A i \in 1..Len(promptSessions), j \in 1..Len(promptSessions') :
       (/\ promptSessions'[j].id = promptSessions[i].id
        /\ promptSessions[i].isDeleted
        /\ promptSessions'[j].isDeleted)
       => promptSessions'[j] = promptSessions[i]]_vars

(***************************************************************************)
(* C12 - Purge is the only removal.  A step in which a session leaves the  *)
(* store is a confirmed handleEmptyRecycleBin: it removes exactly the      *)
(* sessions whose deletion flag is set and leaves the active sessions, in  *)
(* their order and with their logs, as they were; a step of                *)
(* handleEmptyRecycleBin either does that or, declined, changes nothing.   *)
(***************************************************************************)
C12_PurgeOnlyRemoval ==
  [][LET ids(sessions) == { sessions[i].id : i \in 1..Len(sessions) }
         active == { i \in 1..Len(promptSessions) : ~promptSessions[i].isDeleted }
         purged ==
           /\ Len(promptSessions') = Cardinality(active)
           /\ \A i \in active :
                promptSessions'[Cardinality({k \in active : k <= i})] = promptSessions[i]
     IN
     /\ ~(ids(promptSessions) \subseteq ids(promptSessions')) =>
           (PE_EmptyRecycleBin /\ purged)
     /\ PE_EmptyRecycleBin =>
           \/ purged /\ localStorage' # localStorage
           \/ UNCHANGED vars]_vars

\* The recycle bin is shown and is empty, the view still holds the id of a
\* session that is no longer in the store, and an active session is left.
C12_Witness ==
  /\ peShowTrash
  /\ peCurrentSessionId # NoSession
  /\ \A i \in 1..Len(promptSessions) :
       /\ promptSessions[i].id # peCurrentSessionId
       /\ ~promptSessions[i].isDeleted
  /\ Len(promptSessions) >= 1

(***************************************************************************)
(* C13 - Decision snapshot.  A simulation takes the profile of the moment  *)
(* it is requested; the record it adds holds that profile as its           *)
(* contextProfile; a record that stays in the archive keeps its            *)
(* contextProfile whatever happens to the profile later; and a simulation  *)
(* that fails adds no record.                                              *)
(***************************************************************************)
C13_DecisionSnapshot ==
  [][LET old == { decisions[i].id : i \in 1..Len(decisions) } IN
     /\ \A r \in dsInflight' \ dsInflight : r.alive => r.profile = profile
     /\ \A j \in 1..Len(decisions') :
          /\ decisions'[j].id \notin old =>
               /\ Decision_Resolves(PlainCompletions)
               /\ \E r \in dsInflight \ dsInflight' :
                    decisions'[j].contextProfile = r.profile
          /\ \A i \in 1..Len(decisions) :
               decisions[i].id = decisions'[j].id =>
                 decisions'[j].contextProfile = decisions[i].contextProfile
     /\ Decision_Fails => decisions' = decisions]_vars

\* The archive holds a record whose contextProfile is not the profile the
\* application holds now: the profile was changed after the request.
C13_Witness ==
  \E i \in 1..Len(decisions) : decisions[i].contextProfile # profile

C15_FailedAnalysisChangesNothing ==
  [][Chat_AnalysisFails =>
       /\ alertShown' = "analysis failed"
       /\ profile' = profile
       /\ localStorage' = localStorage
       /\ chatMessages' = chatMessages
       /\ chatSessions' = chatSessions
       /\ \A r \in chatInflight \ chatInflight' : r.alive => ~chatIsAnalyzing']_vars

\* An analysis of the open conversation has failed: the alert is up, the flag
\* is cleared, no request is pending, no confirmation message was appended and
\* the profile is the one the page loaded.
C15_Witness ==
  /\ alertShown = "analysis failed"
  /\ chatMounted
  /\ ~chatIsAnalyzing
  /\ chatInflight = {}
  /\ Len(chatMessages) >= 2
  /\ \A i \in 1..Len(chatMessages) : chatMessages[i].content # "profile updated"
  /\ profile = INITIAL_PROFILE

\* The entries of a category of a profile (none where the category is no list).
Entries(p, k) ==
  IF isArray(Get(p, k)) THEN { Get(p, k).v[i] : i \in 1..Len(Get(p, k).v) } ELSE {}

\* C16: the profile a successful analysis hands to the application has each of
\* the six categories as a list, a category the provider's JSON leaves out
\* being the empty list.
C16_AnalysisResultShape ==
  [][Chat_AnalysisArrives => \A k \in Categories : isArray(Get(profile', k))]_vars

\* C17: a successful analysis loses no entry: each entry of each category of
\* the profile before it is in that category after it.
C17_AnalysisKeepsEntries ==
  [][Chat_AnalysisArrives =>
       \A k \in Categories : Entries(profile, k) \subseteq Entries(profile', k)]_vars

\* C18: when a live session ends (the user stops it, the view is left, its
\* connection closes or fails) a record with the session's start time, its
\* duration and its transcript is appended to the stored history if any
\* transcript text was accumulated, text still in a speaker buffer included,
\* and the history is left as it is if none was.
C18_RecordAtSessionEnd ==
  [][(/\ lsIsActive
      /\ LS_StopSession \/ LeaveVoice("DASHBOARD") \/ LS_OnClose \/ LS_OnError)
     => IF \/ currentTranscriptRef # <<>>
           \/ userTextBuffer # <<>>
           \/ modelTextBuffer # <<>>
        THEN /\ Len(liveSessions') = Len(liveSessions) + 1
             /\ LET record == liveSessions'[Len(liveSessions')]
                IN /\ record.timestamp = startTimeRef
                   /\ record.durationSeconds = record.id - startTimeRef
                   /\ SubSeq(record.transcript, 1, Len(currentTranscriptRef))
                        = currentTranscriptRef
             /\ getItem(localStorage', "mirror_ai_live_sessions") = liveSessions'
        ELSE liveSessions' = liveSessions]_vars

\* C19: a frame is scheduled no earlier than the end of every frame of its
\* output context scheduled before it and not cleared since, and exactly at
\* the latest of these ends when the playback clock has not passed it; the
\* scheduled intervals of the frames of one output context never overlap.
C19_GaplessScheduling ==
  [][/\ \A new \in sourcesRef' \ sourcesRef :
          LET ends == { q.when + q.duration : q \in { x \in sourcesRef : x.ctx = new.ctx } }
          IN \A e \in ends :
               /\ new.when >= e
               /\ (currentTime <= e /\ \A f \in ends : f <= e) => new.when = e
     /\ \A q1, q2 \in sourcesRef' :
          (q1 # q2 /\ q1.ctx = q2.ctx)
          => \/ q1.when + q1.duration <= q2.when
             \/ q2.when + q2.duration <= q1.when]_vars

\* Two frames of the running session are scheduled back to back, the first
\* not over yet.
C19_Witness ==
  /\ lsIsActive
  /\ \E q1, q2 \in sourcesRef :
       /\ q1.ctx = audioContextRef
       /\ q2.ctx = audioContextRef
       /\ q2.when = q1.when + q1.duration
       /\ q2.at < q2.when

\* C20: when an interruption signal is handled, the set of sources is
\* emptied, the scheduling clock is reset, and no frame received before it is
\* left to be started afterwards: no handler is waiting at its decoding with a
\* frame it will start.
C20_BargeIn ==
  [][LS_OnMessage({serverContent(0, FALSE, FALSE, FALSE, TRUE)})
     => /\ sourcesRef' = {}
        /\ nextStartTimeRef' = 0
        /\ \A i \in 1..Len(lsDecoding') :
             lsDecoding'[i].ctx # lsDecoding'[i].session]_vars

\* C21: a frame of the capture pipeline of a session is encoded and handed to
\* its connection only while that connection is open and no later session
\* has been started.
C21_CaptureStopsWithSession ==
  realtimeInput # NoInput
  => /\ realtimeInput.connection = "open"
     /\ realtimeInput.run = realtimeInput.started

ThreeFullExperts(value) ==
  /\ isArray(value)
  /\ Len(value.v) = 3
  /\ \A i \in 1..3 : DOMAIN value.v[i] = {"role", "style", "opinion"}

C23_ExpertMode ==
  [][\A r \in dsInflight \ dsInflight' :
       Len(decisions') > Len(decisions) =>
         LET record == decisions'[Len(decisions')] IN
         IF r.useExperts
           THEN /\ ThreeFullExperts(record.expertOpinions)
                /\ \E c \in ExpertCompletions :
                     /\ c.valid
                     /\ record.decision = Get(c.json, "decision")
                     /\ record.expertOpinions = Get(c.json, "experts")
           ELSE record.expertOpinions = List(<<>>)]_vars

(***************************************************************************)
(* C24 - Shape errors are failures.  An answer to the extractor's request  *)
(* that is empty, that JSON.parse rejects, or that has no task list never  *)
(* lets the extraction resolve: no step of the model is the resolution of  *)
(* handleExtractTasks on such an answer.                                   *)
(***************************************************************************)
ShapeError(c, field) ==
  \/ c.text = ""
  \/ ~c.valid
  \/ ~isArray(Get(c.json, field))

C24_ShapeErrorsFail ==
  [][\A c \in TaskCompletions :
       ShapeError(c, "tasks") => ~Chat_ExtractionResolves({c})]_vars

(***************************************************************************)
(* C25 - sanitize is idempotent.  The safe profile built from a safe       *)
(* profile is that safe profile, all six lists and lastUpdated included,   *)
(* whatever the parsed file held: categories that are missing, null or not *)
(* lists, lastUpdated missing or empty.                                    *)
(***************************************************************************)
C25_SanitizeIdempotent ==
  sanTwice # NotBuilt => sanTwice = sanOnce

\* Both steps done on a file with a null category, a category that is not a
\* list, four categories missing and no lastUpdated.
C25_Witness ==
  /\ sanTwice # NotBuilt
  /\ DOMAIN sanJson = {"values", "interests"}
  /\ sanJson["values"] = Null
  /\ sanJson["interests"] = Str("text")
  /\ \A k \in Categories : sanOnce[k] = List(<<>>)
  /\ sanOnce["lastUpdated"] = toLocaleString(DateNow(1))

(***************************************************************************)
(* C26 - A failed write is reported and not rolled back.  A step that      *)
(* changes the profile while the store refuses the write leaves the new    *)
(* profile in memory, leaves the store as it was, and ends with a failure  *)
(* alert on the screen.                                                    *)
(***************************************************************************)
C26_WriteFailureSurfaced ==
  [][(quotaExceeded /\ profile' # profile)
       => /\ localStorage' = localStorage
          /\ alertShown' = "import failed"]_vars

(***************************************************************************)
(* C27 - Primary tier of sendChatMessage.  Every invocation of the primary *)
(* operation of a sendChatMessage call runs on the Pro model when thinking *)
(* was requested, with or without search, on the Flash model when only     *)
(* search was requested, and on the Pro model when neither was: retries    *)
(* included.                                                               *)
(***************************************************************************)
C27_PrimaryTier ==
  rCall.caller = "sendChatMessage" =>
    \A i \in OpEvents :
      /\ rCall.options.useThinking => rTrace[i].model = MODEL_CHAT_PRO
      /\ (~rCall.options.useThinking /\ rCall.options.useSearch)
           => rTrace[i].model = MODEL_CHAT_FLASH
      /\ (~rCall.options.useThinking /\ ~rCall.options.useSearch)
           => rTrace[i].model = MODEL_CHAT_PRO

\* A call with thinking and search both requested whose primary was retried
\* twice, on Pro each time.
C27_Witness ==
  /\ rCall.caller = "sendChatMessage"
  /\ rCall.options = Options(TRUE, TRUE)
  /\ Cardinality(OpEvents) = 3
  /\ \A i \in OpEvents : rTrace[i].model = MODEL_CHAT_PRO

(***************************************************************************)
(* C28 - The fallback runs at most once, and last.  In a retryOperation    *)
(* call the fallback is invoked at most once, after at least one           *)
(* invocation of the primary, and nothing is invoked after it; when it     *)
(* fails the call has thrown the fallback's error.                         *)
(***************************************************************************)
C28_FallbackOnceAndLast ==
  /\ Cardinality(FbEvents) <= 1
  /\ \A i \in FbEvents :
       /\ i = Len(rTrace)
       /\ i > 1
       /\ \A j \in 1..(i - 1) : rTrace[j].who = "op"
       /\ ~rTrace[i].ok =>
            /\ rPc = "thrown"
            /\ rResult.kind = "error"
            /\ rResult.error = rTrace[i].error
            /\ rResult.by = rCall.fallback

\* A fallback that failed with an error other than the primary's last one.
C28_Witness ==
  /\ Cardinality(FbEvents) = 1
  /\ ~rTrace[Len(rTrace)].ok
  /\ rPc = "thrown"
  /\ rTrace[Len(rTrace)].error # rTrace[Len(rTrace) - 1].error

(***************************************************************************)
(* The message log the store holds under a session id: none (the empty     *)
(* log) when no session of that id is stored.                              *)
(***************************************************************************)
IsPersisted(store, id) ==
  findIndex(Loaded(store, "mirror_ai_chat_sessions", <<>>), id) # 0

persistedLog(store, id) ==
  LET sessions == Loaded(store, "mirror_ai_chat_sessions", <<>>) IN
  IF IsPersisted(store, id) THEN sessions[findIndex(sessions, id)].messages ELSE <<>>

(***************************************************************************)
(* C29 - Durability per session.  When a turn completes, its reply having  *)
(* arrived or its request having failed, in the component that issued it   *)
(* and in the session it was issued in, the log the store holds for that   *)
(* session is the log the component shows.                                 *)
(***************************************************************************)
C29_PersistedEqualsInMemory ==
  [][\A r \in chatInflight \ chatInflight' :
       (/\ Chat_ReplyArrives \/ Chat_ReplyFails
        /\ r.kind = "send"
        /\ r.alive
        /\ r.sessionId = chatCurrentSessionId)
         => persistedLog(localStorage', r.sessionId) = chatMessages']_vars

(***************************************************************************)
(* C30 - A successful turn extends the stored log.  A send in a session    *)
(* whose log L is stored stores L followed by the new user message and     *)
(* carries that log with it; the arrival of its reply stores that log      *)
(* followed by one message of the model; and no stored message holds the   *)
(* profile context of the outbound history.                                *)
(***************************************************************************)
C30_TurnExtendsStoredLog ==
  [][/\ \A r \in chatInflight' \ chatInflight :
          (Chat_HandleSend /\ IsPersisted(localStorage, r.sessionId)) =>
            LET L == persistedLog(localStorage, r.sessionId) IN
            /\ Len(r.messages) = Len(L) + 1
            /\ SubSeq(r.messages, 1, Len(L)) = L
            /\ r.messages[Len(r.messages)].role = MessageRole.USER
            /\ persistedLog(localStorage', r.sessionId) = r.messages
     /\ \A r \in chatInflight \ chatInflight' :
          (Chat_ReplyArrives /\ r.kind = "send" /\ ~r.retry) =>
            LET after == persistedLog(localStorage', r.sessionId) IN
            /\ Len(after) = Len(r.messages) + 1
            /\ SubSeq(after, 1, Len(r.messages)) = r.messages
            /\ after[Len(after)].role = MessageRole.MODEL
            /\ \A i \in 1..Len(after) : "context" \notin DOMAIN after[i]]_vars

(***************************************************************************)
(* C31 - Session isolation.  A message, the welcome message apart, is in   *)
(* the log the store holds under one session id only: the log of the       *)
(* session it was sent or received in never reaches another session's      *)
(* stored log, whatever sessions are created or loaded while a reply is    *)
(* in flight.                                                              *)
(***************************************************************************)
MessageIds(session) ==
  { session.messages[k].id : k \in 1..Len(session.messages) } \ {WelcomeId}

C31_SessionIsolation ==
  LET stored == Loaded(localStorage, "mirror_ai_chat_sessions", <<>>) IN
  \A i, j \in 1..Len(stored) :
    i # j => MessageIds(stored[i]) \cap MessageIds(stored[j]) = {}


\* C32: a request dispatched by a regenerate carries the retried user message's
\* own attachment (none if it had none, whatever file is staged in the
\* composer) and that message's content as its text.
retriedMessage(r) == DropLast(r.messages)[Len(DropLast(r.messages))]

C32_RegenerateAttachment ==
  \A r \in chatInflight :
    (r.kind = "send" /\ r.retry) =>
      /\ r.fileData = retriedMessage(r).fileData
      /\ r.content = retriedMessage(r).content


\* C33: the user message of a chat turn reaches the gateway once: it is the
\* new message of the request, and it is not among the messages the outbound
\* history of the same request was built from.
sentMessage(r) == IF r.retry THEN retriedMessage(r) ELSE r.messages[Len(r.messages)]

historyMessages(r) == SelectSeq(SliceLast(r.messages, ContextLimit), NotSystem)

C33_SentOnce ==
  \A r \in chatInflight :
    r.kind = "send" =>
      /\ r.content = sentMessage(r).content
      /\ Len(history(r)) = Len(historyMessages(r))
      /\ \A k \in 1..Len(historyMessages(r)) : historyMessages(r)[k].id # sentMessage(r).id


\* C34: every accepted send returns the engine to idle: the busy flag set at
\* dispatch is cleared and the gateway call it awaits settles, whether the call
\* succeeds, fails, or exhausts its retries and its fallback; retryOperation
\* makes at most retries+1 primary attempts and at most one fallback attempt.
C34_ReturnsToIdle ==
  /\ (chatIsLoading \/ chatInflight # {} \/ rPc # "idle")
       ~> (~chatIsLoading /\ chatInflight = {} /\ rPc = "idle")
  /\ [](Cardinality(OpEvents) <= rCall.retries + 1 /\ Cardinality(FbEvents) <= 1)
  /\ [](chatIsLoading => \E r \in chatInflight : r.kind = "send" /\ r.alive)

\* A turn whose gateway call failed in its fallback has shown the error and
\* is idle again.
C34_Witness ==
  /\ chatMounted /\ ~chatIsLoading /\ chatInflight = {}
  /\ rPc = "idle"
  /\ Len(chatMessages) > 0
  /\ chatMessages[Len(chatMessages)].content = "error"


\* C35: the live session history is append-only: a step of the live view
\* (start, stop, connection close, view change) keeps every saved record, in
\* place and unchanged.
C35_HistoryAppendOnly ==
  [][lsMounted =>
       /\ Len(liveSessions') >= Len(liveSessions)
       /\ \A i \in 1..Len(liveSessions) : liveSessions'[i] = liveSessions[i]]_vars


\* C36: a record saved for a live session holds only text received on the
\* connection of that session (the run started last), and no record of the
\* same session was saved before.
runsIn(transcript) ==
  UNION { { transcript[i].text[k] : k \in 1..Len(transcript[i].text) } :
          i \in 1..Len(transcript) }

C36_TranscriptOfOneSession ==
  [][(lsMounted /\ liveSessions' # liveSessions) =>
       LET record == liveSessions'[Len(liveSessions')] IN
       /\ runsIn(record.transcript) \subseteq {lsStarted}
       /\ \A i \in 1..Len(liveSessions) : liveSessions[i].timestamp # record.timestamp]_vars


\* C37: a regenerate removes a message from the log only if it dispatches the
\* resend: a regenerate whose resend is refused leaves the log as it was.
C37_RefusedRegenerateKeepsLog ==
  [][(Chat_HandleRegenerate /\ chatInflight' = chatInflight)
       => chatMessages' = chatMessages]_vars


\* C38: no todo is lost: a step other than a deletion keeps every todo of the
\* list, and the completion of a task extraction appends its tasks, in the
\* order returned, after the todos the list holds when it completes.
C38_NoTodoLost ==
  [][/\ App_HandleDeleteTodo
        \/ \A i \in 1..Len(todos) : \E j \in 1..Len(todos') : todos'[j] = todos[i]
     /\ \A c \in TaskCompletions :
          (Chat_ExtractionResolves({c}) /\ runExtraction(c).value.v # <<>>)
            => /\ Len(todos') = Len(todos) + Len(runExtraction(c).value.v)
               /\ \A k \in 1..Len(todos) : todos'[k] = todos[k]
               /\ \A k \in 1..Len(runExtraction(c).value.v) :
                    todos'[Len(todos) + k].text = runExtraction(c).value.v[k]]_vars

====
